---------------------------- MODULE Spec2Model ----------------------------
(***************************************************************************)
(* A model of the threadspace backend: the relational store (posts,        *)
(* comments, votes, bookmarks, users and the reputation trigger), the      *)
(* GraphQL resolvers that work on it (vote, removeVote, bookmarkPost,      *)
(* unbookmarkPost, createComment, deleteComment, updatePost, deletePost,   *)
(* posts, comments and the comment connections, subscribeTopic and         *)
(* unsubscribeTopic), the per-request dataloaders, typing presence, and    *)
(* the event bus with its two transports: the SSE endpoint and the         *)
(* iterators of the subscription channel.                                  *)
(*                                                                         *)
(* A resolver is an async function: it runs atomically from one await to   *)
(* the next, and other resolvers run in between.  Each await of a storage  *)
(* call is one step of the model (call[r].pc names the next one).          *)
(***************************************************************************)
EXTENDS Integers, Sequences, FiniteSets, TLC

VARIABLES
    posts,      \* table posts: set of rows [id, authorId, createdAt, views, deleted]
    comments,   \* table comments: set of rows [id, postId, parentId, authorId, depth, createdAt, deleted]
    votes,      \* table votes: a multiset of rows, [VoteRows -> Nat]
    bookmarks,  \* table bookmarks: a multiset of rows, [BookmarkRows -> Nat]
    call,       \* per request slot: the resolver call in progress (or the last one, pc = "done")
    query,      \* the pagination client: the last two responses to its feed queries
    hist,       \* history, for the properties only: no resolver reads it
    users,      \* table users: the stored reputation of each user
    typingUsers,    \* typingResolvers: the entries [postId, userId, lastTyping] of the typing map
    now,            \* Date.now(), in milliseconds
    activeUsers,    \* the last response of getTypingUsers
    subscriptions,  \* pubsub: the registered listeners [id, triggerName, kind, owner]
    subIdCounter,   \* pubsub: the id of the last registered listener
    connections,    \* server: the SSE connections of /api/posts/:postId/events
    iterators,      \* the SubscriptionAsyncIterator of each subscription operation
    topics,         \* table topics: the subscriberCount of each topic
    userTopics,     \* table user_topics: set of rows [userId, topicId]
    dataLoaders,    \* per request: the memo tables of context.dataLoaders
    typingPosts,    \* typingResolvers: the keys of the typing map, the posts that have a map of entries
    path,           \* table comments: the column path of each comment
    triggers        \* table comments: the triggers that are installed on it

\* the state of the server process, outside the store
server == <<typingUsers, now, activeUsers, subscriptions, subIdCounter, connections, iterators>>

\* the topics and their subscriptions, the loaders of the requests, the keys
\* of the typing map, and the paths of the comments with their trigger
extra == <<topics, userTopics, dataLoaders, typingPosts, path, triggers>>

vars == <<posts, comments, votes, bookmarks, call, query, hist, users, server, extra>>

-----------------------------------------------------------------------------
(* Bounds and value sets *)

Null == "null"

\* parentId: input.parentId || null
NoParent == 0

\* users of the forum; NoUser is a request without context.user
Users == {"U1", "U2"}
NoUser == "anonymous"

\* the frames of a connection after which its heartbeat is not followed
MaxFrames == 3

\* the events published
MaxPublished == 1

\* the time at which the clock of the model stops
MaxNow == 5002

\* request slots: resolver calls that may be in flight at the same time
Reqs == {"R1", "R2"}

\* ids a vote or bookmark call may name: 1 is a post and 2 a comment of it
TargetIds == {1, 2}

TargetTypes == {"POST", "COMMENT"}          \* GraphQL enum VotableType
DbTargetTypes == {"post", "comment"}        \* SQL enum votable_type
VoteTypes == {"UPVOTE", "DOWNVOTE"}         \* enum vote_type

VoteRows == [userId : Users, votableId : TargetIds,
             votableType : DbTargetTypes, voteType : VoteTypes]
BookmarkRows == [userId : Users, postId : TargetIds]

-----------------------------------------------------------------------------
(* The store: queries *)

\* targetType.toLowerCase()
ToLowerCase(targetType) == IF targetType = "POST" THEN "post" ELSE "comment"

\* A loaded row is a set: empty for null, else the row alone.
Row(loaded) == CHOOSE row \in loaded : TRUE

MutPostLoadAnyPost(id) == {p \in posts : ~p.deleted}

\* createPostLoader's batch function: the post with this id, deletedAt null
PostLoad(id) == {p \in posts : p.id = id /\ ~p.deleted}

\* createCommentLoader's batch function: the comment with this id, deletedAt null
CommentLoad(id) == {c \in comments : c.id = id /\ ~c.deleted}

VoteKey(userId, votableId, votableType) ==
    [userId |-> userId, votableId |-> votableId, votableType |-> votableType]

KeyOf(row) == VoteKey(row.userId, row.votableId, row.votableType)

\* the rows of the votes table that have this (user_id, votable_id, votable_type)
RowsWithKey(table, key) == {row \in VoteRows : table[row] > 0 /\ KeyOf(row) = key}

\* createVoteLoader's batch function.  The loader is keyed by a fresh object
\* literal on every load, so its memo table never answers: every load is a query.
VoteLoad(table, key) ==
    IF RowsWithKey(table, key) = {} THEN Null
    ELSE (CHOOSE row \in RowsWithKey(table, key) : TRUE).voteType

\* a multiset of rows as an array, in some order
RECURSIVE ToArray(_, _)
ToArray(table, rows) ==
    IF rows = {} THEN <<>>
    ELSE LET row == CHOOSE x \in rows : TRUE
         IN  [i \in 1..table[row] |-> row] \o ToArray(table, rows \ {row})

\* prisma.vote.findMany({ where: { votableId, votableType } })
FindManyVotes(table, votableId, votableType) ==
    ToArray(table, {row \in VoteRows : /\ table[row] > 0
                                       /\ row.votableId = votableId
                                       /\ row.votableType = votableType})

\* votes.reduce((count, vote) => count + (vote.voteType === 'UPVOTE' ? 1 : -1), 0)
RECURSIVE Reduce(_, _)
Reduce(array, count) ==
    IF array = <<>> THEN count
    ELSE Reduce(Tail(array), count + (IF Head(array).voteType = "UPVOTE" THEN 1 ELSE -1))

MutCountUpvotesOnly(array) == Len(SelectSeq(array, LAMBDA v : v.voteType = "UPVOTE"))

calculateVoteCount(array) == Reduce(array, 0)


-----------------------------------------------------------------------------
(* The store: writes to the votes table *)

\* what a write gives: the table after it, or the error the storage layer raised
Written(table) == [error |-> Null, table |-> table]
Refused(code, table) == [error |-> code, table |-> table]

MutVoteCreateNoUnique(table, row) == Written([table EXCEPT ![row] = @ + 1])

\* prisma.vote.create under UNIQUE(user_id, votable_id, votable_type):
\* a second row with the key is refused (Prisma's P2002)
VoteCreate(table, row) ==
    IF RowsWithKey(table, KeyOf(row)) # {}
    THEN Refused("P2002", table)
    ELSE Written([table EXCEPT ![row] = @ + 1])

\* UPDATE votes SET vote_type = voteType WHERE the key matches
SetVoteType(table, key, voteType) ==
    [row \in VoteRows |->
        IF KeyOf(row) # key THEN table[row]
        ELSE IF row.voteType = voteType
             THEN table[row] + table[[row EXCEPT !.voteType =
                      IF voteType = "UPVOTE" THEN "DOWNVOTE" ELSE "UPVOTE"]]
             ELSE 0]

\* DELETE FROM votes WHERE the key matches
DeleteKey(table, key) == [row \in VoteRows |-> IF KeyOf(row) = key THEN 0 ELSE table[row]]

MutVoteUpdateToggle(table, key, voteType) ==
    IF RowsWithKey(table, key) = {}
    THEN Refused("P2025", table)
    ELSE IF \E row \in RowsWithKey(table, key) : row.voteType = voteType
         THEN Written(DeleteKey(table, key))
         ELSE Written(SetVoteType(table, key, voteType))

\* prisma.vote.update({ where: { userId_votableId_votableType }, data: { voteType } }):
\* the row with the key gets the vote type; no such row is Prisma's P2025
VoteUpdate(table, key, voteType) ==
    IF RowsWithKey(table, key) = {}
    THEN Refused("P2025", table)
    ELSE Written(SetVoteType(table, key, voteType))

\* prisma.vote.delete({ where: { userId_votableId_votableType } }); no such row is P2025
VoteDelete(table, key) ==
    IF RowsWithKey(table, key) = {}
    THEN Refused("P2025", table)
    ELSE Written(DeleteKey(table, key))

-----------------------------------------------------------------------------
(* Resolver calls *)

NoResult == [kind |-> Null, voteCount |-> 0, userVote |-> Null]
Failure(code) == [kind |-> code, voteCount |-> 0, userVote |-> Null]

\* no call in the slot
NoCall ==
    [op |-> "none", pc |-> "idle", user |-> NoUser,
     targetId |-> 0, targetType |-> Null, voteType |-> Null,
     existingVote |-> Null, existingBookmark |-> FALSE, commentPostId |-> {},
     parentId |-> NoParent, depth |-> 0, topicIds |-> {},
     result |-> NoResult, events |-> <<>>]

Idle(r) == call[r].pc = "idle"
InFlight(r) == call[r].pc \notin {"idle", "done"}

\* A call that is done hands its result to the client at once: nothing else
\* runs between a resolver's last step and its return.
Quiet == \A q \in Reqs : call[q].pc # "done"

\* UPVOTE rows minus DOWNVOTE rows of a target, counted on the table itself
Net(table, votableId, votableType) ==
    LET n(voteType) ==
            LET rows == {row \in VoteRows : /\ row.votableId = votableId
                                            /\ row.votableType = votableType
                                            /\ row.voteType = voteType}
                f[S \in SUBSET rows] ==
                    IF S = {} THEN 0
                    ELSE LET x == CHOOSE y \in S : TRUE IN table[x] + f[S \ {x}]
            IN  f[rows]
    IN  n("UPVOTE") - n("DOWNVOTE")

\* a new call in slot r
Begin(r, c) == call' = [call EXCEPT ![r] = c]

\* publishVoteUpdated(voteData): pubsub.publish(VOTE_UPDATED, { voteUpdated: voteData })
publishVoteUpdated(events, voteData) ==
    Append(events, [channel |-> "VOTE_UPDATED", voteUpdated |-> voteData])

-----------------------------------------------------------------------------
(* The server process when it has started, and the users table *)

\* the SSE connection and the subscription operation of the model
ConnIds == {1}
IterIds == {1}

\* no connection in the slot
NoConnection ==
    [state |-> "none", postId |-> 0, frames |-> <<>>, heartbeat |-> FALSE,
     destroyed |-> FALSE, ended |-> FALSE, subscriptionIds |-> {}]

\* no subscription operation in the slot
NoIterator ==
    [state |-> "none", field |-> Null, postId |-> 0, commentId |-> 0, user |-> NoUser,
     isComplete |-> FALSE, listeners |-> 0, delivered |-> <<>>]

NoActiveUsers == [postId |-> 0, at |-> 0, users |-> {}]

\* new Map(), new PubSub(), no connection yet
InitServer ==
    /\ typingUsers = {}
    /\ now = 0
    /\ activeUsers = NoActiveUsers
    /\ subscriptions = {}
    /\ subIdCounter = 0
    /\ connections = [c \in ConnIds |-> NoConnection]
    /\ iterators = [i \in IterIds |-> NoIterator]

\* reputation INTEGER DEFAULT 0
InitUsers == users = [u \in Users |-> 0]

\* the topics of the store
TopicIds == {1, 2}

\* the most comments the store holds
MaxComments == 6

\* path LTREE: a value of the column is NULL or a sequence of labels
NULL == [null |-> TRUE, labels |-> <<>>]

\* the memo tables of a request's loaders, as createDataLoaders() returns
\* them: each a set of entries [key, value]
NoDataLoaders ==
    [postLoader |-> {}, commentLoader |-> {}, voteLoader |-> {}, bookmarkLoader |-> {}]

\* subscriber_count INTEGER DEFAULT 0, no row in user_topics, no request,
\* new Map() of typingResolvers, and the comments table of schema.sql: no
\* trigger on it, the path of every row NULL
InitExtra ==
    /\ topics = [topicId \in TopicIds |-> 0]
    /\ userTopics = {}
    /\ dataLoaders = [r \in Reqs |-> NoDataLoaders]
    /\ typingPosts = {}
    /\ path = [id \in 1..MaxComments |-> NULL]
    /\ triggers = {}

-----------------------------------------------------------------------------
(* voteResolvers.Mutation.vote *)

TargetKey(c) == VoteKey(c.user, c.targetId, ToLowerCase(c.targetType))

\* up to the first storage call: the caller, then the target through its loader
vote(r, user, targetId, targetType, voteType) ==
    /\ Quiet /\ Idle(r)
    /\ LET c == [NoCall EXCEPT !.op = "vote", !.user = user, !.targetId = targetId,
                               !.targetType = targetType, !.voteType = voteType]
           target == IF targetType = "POST" THEN PostLoad(targetId)
                     ELSE CommentLoad(targetId)
       IN  Begin(r, IF user = NoUser
                    THEN [c EXCEPT !.pc = "done", !.result = Failure("AUTHENTICATION_ERROR")]
                    ELSE IF target = {}
                    THEN [c EXCEPT !.pc = "done", !.result = Failure("NOT_FOUND")]
                    ELSE [c EXCEPT !.pc = "loadVote",
                                   !.commentPostId = IF targetType = "COMMENT"
                                                     THEN {Row(target).postId} ELSE {}])
    /\ UNCHANGED <<posts, comments, votes, bookmarks, query>>

\* const existingVote = await voteLoader.load({ userId, votableId, votableType })
voteLoadVote(r) ==
    /\ Quiet
    /\ call[r].op = "vote" /\ call[r].pc = "loadVote"
    /\ LET c == call[r]
       IN  call' = [call EXCEPT ![r] =
                [c EXCEPT !.pc = "write",
                          !.existingVote = VoteLoad(votes, TargetKey(c))]]
    /\ UNCHANGED <<posts, comments, votes, bookmarks, query>>

\* if (existingVote) prisma.vote.update(...) else prisma.vote.create(...)
voteWrite(r) ==
    /\ Quiet
    /\ call[r].op = "vote" /\ call[r].pc = "write"
    /\ LET c == call[r]
           w == IF c.existingVote # Null
                THEN VoteUpdate(votes, TargetKey(c), c.voteType)
                ELSE VoteCreate(votes, [userId |-> c.user, votableId |-> c.targetId,
                                        votableType |-> ToLowerCase(c.targetType),
                                        voteType |-> c.voteType])
       IN  /\ votes' = w.table
           /\ call' = [call EXCEPT ![r] =
                IF w.error # Null
                THEN [c EXCEPT !.pc = "done", !.result = Failure(w.error)]
                ELSE [c EXCEPT !.pc = "findMany", !.existingVote = Null]]
    /\ UNCHANGED <<posts, comments, bookmarks, query>>

\* allVotes = await prisma.vote.findMany(...); voteLoader.clear(...);
\* publishVoteUpdated(...); return { success, voteCount, userVote }
voteFindMany(r) ==
    /\ Quiet
    /\ call[r].op = "vote" /\ call[r].pc = "findMany"
    /\ LET c == call[r]
           dbTargetType == ToLowerCase(c.targetType)
           allVotes == FindManyVotes(votes, c.targetId, dbTargetType)
           voteCount == calculateVoteCount(allVotes)
       IN  call' = [call EXCEPT ![r] =
                [c EXCEPT !.pc = "done",
                          !.events = publishVoteUpdated(c.events,
                              [targetId |-> c.targetId, targetType |-> dbTargetType,
                               voteCount |-> voteCount, userVote |-> c.voteType,
                               commentPostId |-> c.commentPostId]),
                          !.result = [kind |-> "ok",
                                      voteCount |-> calculateVoteCount(allVotes),
                                      userVote |-> c.voteType]]]
    /\ UNCHANGED <<posts, comments, votes, bookmarks, query>>

-----------------------------------------------------------------------------
(* voteResolvers.Mutation.removeVote *)

MutRemoveAbsentVote(existingVote) == TRUE

\* if (!existingVote) throw new NotFoundError('Vote not found')
VoteFound(existingVote) == existingVote # Null

\* up to the first storage call: the caller, then the vote through its loader
removeVote(r, user, targetId, targetType) ==
    /\ Quiet /\ Idle(r)
    /\ LET c == [NoCall EXCEPT !.op = "removeVote", !.user = user,
                               !.targetId = targetId, !.targetType = targetType]
           existingVote == VoteLoad(votes, TargetKey(c))
       IN  Begin(r, IF user = NoUser
                    THEN [c EXCEPT !.pc = "done", !.result = Failure("AUTHENTICATION_ERROR")]
                    ELSE IF ~VoteFound(existingVote)
                    THEN [c EXCEPT !.pc = "done", !.result = Failure("NOT_FOUND")]
                    ELSE [c EXCEPT !.pc = "delete", !.existingVote = existingVote])
    /\ UNCHANGED <<posts, comments, votes, bookmarks, query>>

\* await prisma.vote.delete(...); voteLoader.clear(...)
removeVoteDelete(r) ==
    /\ Quiet
    /\ call[r].op = "removeVote" /\ call[r].pc = "delete"
    /\ LET c == call[r]
           w == VoteDelete(votes, TargetKey(c))
       IN  /\ votes' = w.table
           /\ call' = [call EXCEPT ![r] =
                IF w.error # Null
                THEN [c EXCEPT !.pc = "done", !.result = Failure(w.error)]
                ELSE [c EXCEPT !.pc = IF c.targetType = "COMMENT"
                                      THEN "loadComment" ELSE "findMany",
                               !.existingVote = Null]]
    /\ UNCHANGED <<posts, comments, bookmarks, query>>

\* if (targetType === 'COMMENT') commentPostId = (await commentLoader.load(targetId))?.postId
removeVoteLoadComment(r) ==
    /\ Quiet
    /\ call[r].op = "removeVote" /\ call[r].pc = "loadComment"
    /\ LET c == call[r]
           comment == CommentLoad(c.targetId)
       IN  call' = [call EXCEPT ![r] =
                [c EXCEPT !.pc = "findMany",
                          !.commentPostId = {x.postId : x \in comment}]]
    /\ UNCHANGED <<posts, comments, votes, bookmarks, query>>

\* remainingVotes = await prisma.vote.findMany(...); publishVoteUpdated(...); return true
removeVoteFindMany(r) ==
    /\ Quiet
    /\ call[r].op = "removeVote" /\ call[r].pc = "findMany"
    /\ LET c == call[r]
           dbTargetType == ToLowerCase(c.targetType)
           remainingVotes == FindManyVotes(votes, c.targetId, dbTargetType)
           voteCount == calculateVoteCount(remainingVotes)
       IN  call' = [call EXCEPT ![r] =
                [c EXCEPT !.pc = "done",
                          !.events = publishVoteUpdated(c.events,
                              [targetId |-> c.targetId, targetType |-> dbTargetType,
                               voteCount |-> voteCount, userVote |-> Null,
                               commentPostId |-> c.commentPostId]),
                          !.result = [kind |-> "ok", voteCount |-> 0,
                                      userVote |-> Null]]]
    /\ UNCHANGED <<posts, comments, votes, bookmarks, query>>

\* the result goes back to the client and the slot is free again
respond(r) ==
    /\ call[r].pc = "done"
    /\ call' = [call EXCEPT ![r] = NoCall]
    /\ UNCHANGED <<posts, comments, votes, bookmarks, query>>

-----------------------------------------------------------------------------
(* Query.posts and Query.comments: the paged feeds *)

\* first = 10 (posts)
DefaultFirst == 10

\* Math.max(..., 1)
MinLimit == 1

\* Math.min(..., 50)
MaxLimit == 50

\* first = 10 (comments)
DefaultCommentsFirst == 10

Min(a, b) == IF a < b THEN a ELSE b
Max(a, b) == IF a > b THEN a ELSE b

\* An optional argument is a sequence: <<>> when the client leaves it out,
\* <<v>> when it passes v.
Absent == <<>>

\* A cursor is a string: the ISO form of a timestamp, a comment id, or text
\* that is neither; null is no cursor.
NoCursor == [kind |-> "null", value |-> 0]
NotADate == [kind |-> "text", value |-> 0]
EmptyString == [kind |-> "empty", value |-> 0]

MutTruthyOfDatesAndIds(after) == after.kind \in {"iso", "id"}

\* !!after, and after ? ... : ...: null and the empty string are falsy
Truthy(after) == after.kind \notin {"null", "empty"}

\* post.createdAt.toISOString()
toISOString(createdAt) == [kind |-> "iso", value |-> createdAt]

\* new Date(after): the time the string denotes, if it denotes one
NewDate(after) == [isNaN |-> after.kind # "iso",
                   getTime |-> IF after.kind = "iso" THEN after.value ELSE 0]

\* cursor: comment.id
IdCursor(id) == [kind |-> "id", value |-> id]

OrderBys == {"NEWEST", "OLDEST", "TRENDING", "TOP"}
CommentOrderBys == {"NEWEST", "OLDEST", "TOP"}

\* The order the store gives rows whose sort keys are equal is the store's
\* choice, query by query.
TieOrders == {"idAsc", "idDesc"}

TieBefore(tie, a, b) == IF tie = "idAsc" THEN a.id < b.id ELSE a.id > b.id

\* orderByClause of Query.posts: a sorts strictly before b
PostPrecedes(orderBy, a, b) ==
    CASE orderBy = "OLDEST" -> a.createdAt < b.createdAt
      [] orderBy = "TRENDING" -> \/ a.views > b.views
                                 \/ a.views = b.views /\ a.createdAt > b.createdAt
      [] orderBy = "TOP" -> a.views > b.views
      [] OTHER -> a.createdAt > b.createdAt

MutCommentPrecedesByRecency(orderBy, a, b) == a.createdAt > b.createdAt

\* orderByClause of Query.comments: a sorts strictly before b
CommentPrecedes(orderBy, a, b) ==
    CASE orderBy = "OLDEST" -> a.createdAt < b.createdAt
      [] orderBy = "TOP" -> \/ a.depth < b.depth
                            \/ a.depth = b.depth /\ a.createdAt > b.createdAt
      [] OTHER -> a.createdAt > b.createdAt

RECURSIVE Listing(_)
Listing(rows) ==
    IF rows = {} THEN <<>>
    ELSE LET row == CHOOSE x \in rows : TRUE
         IN  <<row>> \o Listing(rows \ {row})

\* the order of a posts listing: the sort key, then the store's choice
PostBefore(orderBy, tie, a, b) ==
    \/ PostPrecedes(orderBy, a, b)
    \/ ~PostPrecedes(orderBy, b, a) /\ TieBefore(tie, a, b)

\* the order of a comments listing: the sort key, then the store's choice
CommentBefore(orderBy, tie, a, b) ==
    \/ CommentPrecedes(orderBy, a, b)
    \/ ~CommentPrecedes(orderBy, b, a) /\ TieBefore(tie, a, b)

\* rows skip + 1 .. skip + take of a listing
Slice(listing, skip, take) == SubSeq(listing, skip + 1, Min(Len(listing), skip + take))

Ids(listing) == [i \in 1..Len(listing) |-> listing[i].id]

MutLimitWithoutMaximum(first) ==
    Max(IF first = Absent \/ first[1] = 0 THEN DefaultFirst ELSE first[1], MinLimit)

\* const limit = Math.min(Math.max(first || 10, 1), 50)
limit(first) ==
    Min(Max(IF first = Absent \/ first[1] = 0 THEN DefaultFirst ELSE first[1], MinLimit),
        MaxLimit)

NoResponse ==
    [feed |-> Null, postId |-> 0, first |-> Absent, after |-> NoCursor,
     orderBy |-> Null, kind |-> Null, limit |-> 0, fetched |-> 0, edges |-> <<>>,
     hasNextPage |-> FALSE, hasPreviousPage |-> FALSE, startCursor |-> NoCursor,
     endCursor |-> NoCursor, totalCount |-> 0]

\* the last response to a feed query, and the one before it
NoQuery == [prev |-> NoResponse, last |-> NoResponse]

Respond(response) == query' = [prev |-> query.last, last |-> response]

\* Query.posts, without filters
postsQuery(first, after, orderBy, tie) ==
    LET request == [NoResponse EXCEPT !.feed = "posts", !.first = first,
                                      !.after = after, !.orderBy = orderBy]
        cursor == NewDate(after)
        where == {post \in posts :
                     /\ ~post.deleted
                     /\ Truthy(after) => post.createdAt < cursor.getTime}
        sorted == SortSeq(Listing(where), LAMBDA a, b : PostBefore(orderBy, tie, a, b))
        found == Slice(sorted, 0, limit(first) + 1)
        hasNextPage == Len(found) > limit(first)
        page == IF hasNextPage THEN SubSeq(found, 1, Len(found) - 1) ELSE found
    IN  /\ \A r \in Reqs : Idle(r)
        /\ Respond(IF Truthy(after) /\ cursor.isNaN
                    THEN [request EXCEPT !.kind = "VALIDATION_ERROR"]
                    ELSE [request EXCEPT
                            !.kind = "ok",
                            !.limit = limit(first),
                            !.fetched = Len(found),
                            !.edges = Ids(page),
                            !.hasNextPage = hasNextPage,
                            !.hasPreviousPage = Truthy(after),
                            !.startCursor = IF page = <<>> THEN NoCursor
                                            ELSE toISOString(page[1].createdAt),
                            !.endCursor = IF page = <<>> THEN NoCursor
                                          ELSE toISOString(page[Len(page)].createdAt),
                            !.totalCount = Cardinality(where)])
        /\ UNCHANGED <<posts, comments, votes, bookmarks, call>>

\* Query.comments; cursor: { id: after } starts the listing at the row with
\* that id, the rows that sort before it left out, and skip: 1 drops the first
\* row of what is left
commentsQuery(postId, first, after, orderBy, tie) ==
    LET request == [NoResponse EXCEPT !.feed = "comments", !.postId = postId,
                                      !.first = first, !.after = after,
                                      !.orderBy = orderBy]
        n == IF first = Absent THEN DefaultCommentsFirst ELSE first[1]
        at == {comment \in comments : after.kind = "id" /\ comment.id = after.value}
        where == {comment \in comments : comment.postId = postId /\ ~comment.deleted}
        from == IF ~Truthy(after) THEN where
                ELSE {comment \in where :
                         \E c \in at : ~CommentPrecedes(orderBy, comment, c)}
        sorted == SortSeq(Listing(from), LAMBDA a, b : CommentBefore(orderBy, tie, a, b))
        found == Slice(sorted, IF ~Truthy(after) THEN 0 ELSE 1, n + 1)
        hasNextPage == Len(found) > n
        result == IF hasNextPage THEN SubSeq(found, 1, Len(found) - 1) ELSE found
    IN  /\ \A r \in Reqs : Idle(r)
        /\ Respond(IF PostLoad(postId) = {}
                    THEN [request EXCEPT !.kind = "NOT_FOUND"]
                    ELSE [request EXCEPT
                            !.kind = "ok",
                            !.limit = n,
                            !.fetched = Len(found),
                            !.edges = Ids(result),
                            !.hasNextPage = hasNextPage,
                            !.hasPreviousPage = Truthy(after),
                            !.startCursor = IF result = <<>> THEN NoCursor
                                            ELSE IdCursor(result[1].id),
                            !.endCursor = IF result = <<>> THEN NoCursor
                                          ELSE IdCursor(result[Len(result)].id),
                            !.totalCount = Cardinality(where)])
        /\ UNCHANGED <<posts, comments, votes, bookmarks, call>>

-----------------------------------------------------------------------------
(* The voting specification: a post of U1 with a comment of U2 on it, no votes *)

InitVote ==
    /\ posts = {[id |-> 1, authorId |-> "U1", createdAt |-> 1, views |-> 0, deleted |-> FALSE]}
    /\ comments = {[id |-> 2, postId |-> 1, parentId |-> NoParent, authorId |-> "U2",
                    depth |-> 0, createdAt |-> 2, deleted |-> FALSE]}
    /\ votes = [row \in VoteRows |-> 0]
    /\ bookmarks = [row \in BookmarkRows |-> 0]
    /\ call = [r \in Reqs |-> NoCall]
    /\ query = NoQuery
    /\ hist = [before |-> votes, afterWrite |-> votes]
    /\ InitUsers /\ InitServer /\ InitExtra

voteCalls(r) ==
    \/ \E user \in Users \cup {NoUser}, targetId \in TargetIds,
          targetType \in TargetTypes, voteType \in VoteTypes :
            vote(r, user, targetId, targetType, voteType)
    \/ \E user \in Users \cup {NoUser}, targetId \in TargetIds,
          targetType \in TargetTypes :
            removeVote(r, user, targetId, targetType)

voteSteps(r) ==
    \/ voteLoadVote(r)
    \/ voteWrite(r)
    \/ voteFindMany(r)
    \/ removeVoteDelete(r)
    \/ removeVoteLoadComment(r)
    \/ removeVoteFindMany(r)
    \/ respond(r)

\* the sum of the trigger: +1 for an UPVOTE row and -1 for a DOWNVOTE row, over
\* the rows of table of kind votableType on the targets ids
VoteSum(table, ids, votableType) ==
    LET rows == {row \in VoteRows : /\ row.votableId \in ids
                                    /\ row.votableType = votableType}
        f[S \in SUBSET rows] ==
            IF S = {} THEN 0
            ELSE LET x == CHOOSE y \in S : TRUE
                 IN  table[x] * (IF x.voteType = "UPVOTE" THEN 1 ELSE -1) + f[S \ {x}]
    IN  f[rows]

\* update_user_reputation() for the row NEW (new), on the votes table after the
\* write: the reputation of the author of NEW's target becomes the sum over the
\* votes of NEW's kind on the author's targets of that kind
update_user_reputation(table, new) ==
    LET targets == IF new.votableType = "post" THEN posts
                   ELSE IF new.votableType = "comment" THEN comments
                   ELSE {}
        author == {target.authorId : target \in {t \in targets : t.id = new.votableId}}
        ids == {target.id : target \in {t \in targets : t.authorId \in author}}
    IN  [u \in Users |-> IF u \in author THEN VoteSum(table, ids, new.votableType)
                         ELSE users[u]]

\* update_reputation_trigger, AFTER INSERT OR UPDATE OR DELETE ON votes FOR EACH
\* ROW: NEW is the row inserted or updated, and is null after a DELETE, when
\* neither branch of the function is taken
update_reputation_trigger ==
    LET inserted == {row \in VoteRows : votes'[row] > votes[row]}
    IN  users' = IF inserted = {} THEN users
                 ELSE update_user_reputation(votes', CHOOSE row \in inserted : TRUE)

\* the calls of vote and removeVote, overlapping; the reputations, which no
\* resolver reads, are left out and stay as they are
NextVote ==
    /\ \E r \in Reqs : voteCalls(r) \/ voteSteps(r)
    /\ UNCHANGED <<hist, users, server, extra>>

SpecVote == InitVote /\ [][NextVote]_vars

\* the votes table when the call began, and right after the call wrote to it
NoteVotes ==
    hist' = IF \E r \in Reqs : Idle(r) /\ call'[r].op # "none"
            THEN [before |-> votes, afterWrite |-> votes]
            ELSE IF \E r \in Reqs : call[r].pc \in {"write", "delete"}
            THEN [hist EXCEPT !.afterWrite = votes']
            ELSE hist

\* calls of vote and removeVote that do not overlap: one begins when none is in the slots
NextVoteSeq ==
    /\ \E r \in Reqs : \/ /\ \A q \in Reqs : Idle(q)
                            /\ voteCalls(r)
                         \/ voteSteps(r)
    /\ NoteVotes
    /\ update_reputation_trigger
    /\ UNCHANGED <<server, extra>>

SpecVoteSeq == InitVote /\ [][NextVoteSeq]_vars

-----------------------------------------------------------------------------
(* bookmarkResolvers.Mutation: bookmarkPost and unbookmarkPost *)

BookmarkKey(c) == [userId |-> c.user, postId |-> c.targetId]

\* createBookmarkLoader's batch function (keyed by a fresh object literal: every
\* load is a query)
BookmarkLoad(table, key) == table[key] > 0

\* prisma.bookmark.create under PRIMARY KEY (user_id, post_id)
BookmarkCreate(table, key) ==
    IF table[key] > 0 THEN Refused("P2002", table)
    ELSE Written([table EXCEPT ![key] = @ + 1])

\* prisma.bookmark.delete({ where: { userId_postId } }); no such row is P2025
BookmarkDelete(table, key) ==
    IF table[key] = 0 THEN Refused("P2025", table)
    ELSE Written([table EXCEPT ![key] = 0])

\* up to the first storage call: the caller, then the post through its loader
bookmarkPost(r, user, postId) ==
    /\ Quiet /\ Idle(r)
    /\ LET c == [NoCall EXCEPT !.op = "bookmarkPost", !.user = user, !.targetId = postId]
           post == PostLoad(postId)
       IN  Begin(r, IF user = NoUser
                    THEN [c EXCEPT !.pc = "done", !.result = Failure("AUTHENTICATION_ERROR")]
                    ELSE IF post = {}
                    THEN [c EXCEPT !.pc = "done", !.result = Failure("NOT_FOUND")]
                    ELSE [c EXCEPT !.pc = "loadBookmark"])
    /\ UNCHANGED <<posts, comments, votes, bookmarks, query>>

\* const existingBookmark = await bookmarkLoader.load({ userId, postId });
\* if (existingBookmark) throw new ValidationError('Post already bookmarked')
bookmarkPostLoadBookmark(r) ==
    /\ Quiet
    /\ call[r].op = "bookmarkPost" /\ call[r].pc = "loadBookmark"
    /\ LET c == call[r]
           existingBookmark == BookmarkLoad(bookmarks, BookmarkKey(c))
       IN  call' = [call EXCEPT ![r] =
                IF existingBookmark
                THEN [c EXCEPT !.pc = "done", !.result = Failure("VALIDATION_ERROR")]
                ELSE [c EXCEPT !.pc = "create"]]
    /\ UNCHANGED <<posts, comments, votes, bookmarks, query>>

\* await prisma.bookmark.create(...); bookmarkLoader.clear(...); return the post
bookmarkPostCreate(r) ==
    /\ Quiet
    /\ call[r].op = "bookmarkPost" /\ call[r].pc = "create"
    /\ LET c == call[r]
           w == BookmarkCreate(bookmarks, BookmarkKey(c))
       IN  /\ bookmarks' = w.table
           /\ call' = [call EXCEPT ![r] =
                [c EXCEPT !.pc = "done",
                          !.result = IF w.error # Null THEN Failure(w.error)
                                     ELSE [NoResult EXCEPT !.kind = "ok"]]]
    /\ UNCHANGED <<posts, comments, votes, query>>

MutAbsentBookmarkNotFound == Failure("NOT_FOUND")

\* if (!existingBookmark) { ...; return true; }
AbsentBookmarkResult == [NoResult EXCEPT !.kind = "ok"]

\* up to the first storage call: the caller, then the bookmark through its loader
unbookmarkPost(r, user, postId) ==
    /\ Quiet /\ Idle(r)
    /\ LET c == [NoCall EXCEPT !.op = "unbookmarkPost", !.user = user,
                               !.targetId = postId]
           existingBookmark == BookmarkLoad(bookmarks, BookmarkKey(c))
       IN  Begin(r, IF user = NoUser
                    THEN [c EXCEPT !.pc = "done", !.result = Failure("AUTHENTICATION_ERROR")]
                    ELSE IF ~existingBookmark
                    THEN [c EXCEPT !.pc = "done", !.result = AbsentBookmarkResult]
                    ELSE [c EXCEPT !.pc = "delete", !.existingBookmark = existingBookmark])
    /\ UNCHANGED <<posts, comments, votes, bookmarks, query>>

\* await prisma.bookmark.delete(...); bookmarkLoader.clear(...); return true
unbookmarkPostDelete(r) ==
    /\ Quiet
    /\ call[r].op = "unbookmarkPost" /\ call[r].pc = "delete"
    /\ LET c == call[r]
           w == BookmarkDelete(bookmarks, BookmarkKey(c))
       IN  /\ bookmarks' = w.table
           /\ call' = [call EXCEPT ![r] =
                [c EXCEPT !.pc = "done", !.existingBookmark = FALSE,
                          !.result = IF w.error # Null THEN Failure(w.error)
                                     ELSE [NoResult EXCEPT !.kind = "ok"]]]
    /\ UNCHANGED <<posts, comments, votes, query>>

-----------------------------------------------------------------------------
(* The bookmark specification: the store of InitVote, no bookmarks *)

NoLast == [op |-> "none", user |-> NoUser, postId |-> 0, kind |-> Null]

InitBookmark ==
    /\ posts = {[id |-> 1, authorId |-> "U1", createdAt |-> 1, views |-> 0, deleted |-> FALSE]}
    /\ comments = {[id |-> 2, postId |-> 1, parentId |-> NoParent, authorId |-> "U2",
                    depth |-> 0, createdAt |-> 2, deleted |-> FALSE]}
    /\ votes = [row \in VoteRows |-> 0]
    /\ bookmarks = [row \in BookmarkRows |-> 0]
    /\ call = [r \in Reqs |-> NoCall]
    /\ query = NoQuery
    /\ hist = [before |-> bookmarks, last |-> NoLast, prev |-> NoLast, req |-> "R1"]
    /\ InitUsers /\ InitServer /\ InitExtra

\* hist.last: the call that returned last, while no step of another call has
\* followed its return; hist.req: the request of the latest call to begin;
\* hist.prev: hist.last as it was when that call began; hist.before: the
\* bookmarks table when it began
NoteBookmarks ==
    hist' = IF \E r \in Reqs : call[r].pc = "done"
            THEN LET c == call[CHOOSE r \in Reqs : call[r].pc = "done"]
                 IN  [hist EXCEPT !.last = [op |-> c.op, user |-> c.user,
                                            postId |-> c.targetId,
                                            kind |-> c.result.kind],
                                  !.prev = NoLast]
            ELSE IF \E r \in Reqs : Idle(r) /\ call'[r].op # "none"
            THEN [before |-> bookmarks, last |-> NoLast, prev |-> hist.last,
                  req |-> CHOOSE r \in Reqs : Idle(r) /\ call'[r].op # "none"]
            ELSE [hist EXCEPT !.last = NoLast, !.prev = NoLast]

NextBookmark ==
    /\ \E r \in Reqs :
          \/ \E user \in Users \cup {NoUser}, postId \in TargetIds :
                bookmarkPost(r, user, postId)
          \/ bookmarkPostLoadBookmark(r)
          \/ bookmarkPostCreate(r)
          \/ \E user \in Users \cup {NoUser}, postId \in TargetIds :
                unbookmarkPost(r, user, postId)
          \/ unbookmarkPostDelete(r)
          \/ respond(r)
    /\ NoteBookmarks
    /\ UNCHANGED <<users, server, extra>>

SpecBookmark == InitBookmark /\ [][NextBookmark]_vars

-----------------------------------------------------------------------------
(* commentResolvers.Mutation: createComment and deleteComment *)

\* context.user.isAdmin
Admins == {"U2"}

\* if (input.content.length > 10000)
MaxContentLength == 10000

\* a content by its length and the length of content.trim()
Contents == {[length |-> 0, trimmed |-> 0], [length |-> 1, trimmed |-> 0],
             [length |-> 5, trimmed |-> 4], [length |-> 10001, trimmed |-> 10001]}

PostIds == {1, 2}
CommentIds == 1..MaxComments

\* the comments a client asks to delete: the two at the end of the thread
DeleteIds == {4, 5}

\* publishCommentAdded(comment): pubsub.publish(COMMENT_ADDED, { commentAdded: comment })
publishCommentAdded(events, comment) ==
    Append(events, [channel |-> "COMMENT_ADDED", commentAdded |-> comment])

\* publishCommentDeleted(commentData)
publishCommentDeleted(events, commentData) ==
    Append(events, [channel |-> "COMMENT_DELETED", commentDeleted |-> commentData])

MutSamePostAlways(parentComment, postId) == TRUE

\* parentComment.postId !== input.postId is the refusal
SamePost(parentComment, postId) == parentComment.postId = postId

MutChildDepthOfParent(parentComment) == parentComment.depth

\* depth = parentComment.depth + 1
ChildDepth(parentComment) == parentComment.depth + 1

MutNeverTooDeep(depth) == FALSE

\* if (depth > 5)
TooDeep(depth) == depth > 5

\* up to the first storage call: the caller, the content, then the post through
\* its loader
createComment(r, user, postId, parentId, content) ==
    /\ Quiet /\ Idle(r)
    /\ LET c == [NoCall EXCEPT !.op = "createComment", !.user = user,
                               !.targetId = postId, !.parentId = parentId]
           post == PostLoad(postId)
       IN  Begin(r, IF user = NoUser
                    THEN [c EXCEPT !.pc = "done", !.result = Failure("AUTHENTICATION_ERROR")]
                    ELSE IF content.trimmed = 0 \/ content.length > MaxContentLength
                    THEN [c EXCEPT !.pc = "done", !.result = Failure("VALIDATION_ERROR")]
                    ELSE IF post = {}
                    THEN [c EXCEPT !.pc = "done", !.result = Failure("NOT_FOUND")]
                    ELSE IF parentId # NoParent
                    THEN [c EXCEPT !.pc = "loadParent"]
                    ELSE [c EXCEPT !.pc = "create"])
    /\ UNCHANGED <<posts, comments, votes, bookmarks, query>>

\* const parentComment = await commentLoader.load(input.parentId) and the checks
\* on it
createCommentLoadParent(r) ==
    /\ Quiet
    /\ call[r].op = "createComment" /\ call[r].pc = "loadParent"
    /\ LET c == call[r]
           loaded == CommentLoad(c.parentId)
       IN  call' = [call EXCEPT ![r] =
                IF loaded = {}
                THEN [c EXCEPT !.pc = "done", !.result = Failure("NOT_FOUND")]
                ELSE IF ~SamePost(Row(loaded), c.targetId)
                THEN [c EXCEPT !.pc = "done", !.result = Failure("VALIDATION_ERROR")]
                ELSE IF TooDeep(ChildDepth(Row(loaded)))
                THEN [c EXCEPT !.pc = "done", !.depth = ChildDepth(Row(loaded)),
                               !.result = Failure("VALIDATION_ERROR")]
                ELSE [c EXCEPT !.pc = "create", !.depth = ChildDepth(Row(loaded))]]
    /\ UNCHANGED <<posts, comments, votes, bookmarks, query>>

\* await prisma.comment.create(...); publishCommentAdded(...); return the comment
createCommentCreate(r) ==
    /\ Quiet
    /\ call[r].op = "createComment" /\ call[r].pc = "create"
    /\ Cardinality(comments) < MaxComments
    /\ LET c == call[r]
           comment == [id |-> Cardinality(comments) + 1, postId |-> c.targetId,
                       parentId |-> c.parentId, authorId |-> c.user,
                       depth |-> c.depth, createdAt |-> Cardinality(comments) + 1,
                       deleted |-> FALSE]
       IN  /\ comments' = comments \cup {comment}
           /\ call' = [call EXCEPT ![r] =
                [c EXCEPT !.pc = "done",
                          !.events = publishCommentAdded(c.events, comment),
                          !.result = [NoResult EXCEPT !.kind = "ok"]]]
    /\ UNCHANGED <<posts, votes, bookmarks, query>>

MutCascadeToReplies(x, id) == x.id = id \/ x.parentId = id

\* where: { id } of prisma.comment.update in deleteComment
UpdateWhere(x, id) == x.id = id

\* up to the first storage call: the caller, then the comment through its loader
\* and the check of its author
deleteComment(r, user, id) ==
    /\ Quiet /\ Idle(r)
    /\ LET c == [NoCall EXCEPT !.op = "deleteComment", !.user = user, !.targetId = id]
           existingComment == CommentLoad(id)
       IN  Begin(r, IF user = NoUser
                    THEN [c EXCEPT !.pc = "done", !.result = Failure("AUTHENTICATION_ERROR")]
                    ELSE IF existingComment = {}
                    THEN [c EXCEPT !.pc = "done", !.result = Failure("NOT_FOUND")]
                    ELSE IF Row(existingComment).authorId # user /\ user \notin Admins
                    THEN [c EXCEPT !.pc = "done", !.result = Failure("AUTHORIZATION_ERROR")]
                    ELSE [c EXCEPT !.pc = "softDelete",
                                   !.commentPostId = {Row(existingComment).postId},
                                   !.parentId = Row(existingComment).parentId])
    /\ UNCHANGED <<posts, comments, votes, bookmarks, query>>

\* await prisma.comment.update({ where: { id }, data: { deletedAt } });
\* commentLoader.clear(id); publishCommentDeleted(...); return true
deleteCommentUpdate(r) ==
    /\ Quiet
    /\ call[r].op = "deleteComment" /\ call[r].pc = "softDelete"
    /\ LET c == call[r]
       IN  /\ comments' = {IF UpdateWhere(x, c.targetId) THEN [x EXCEPT !.deleted = TRUE]
                           ELSE x : x \in comments}
           /\ call' = [call EXCEPT ![r] =
                [c EXCEPT !.pc = "done",
                          !.events = publishCommentDeleted(c.events,
                                        [id |-> c.targetId, postId |-> c.commentPostId,
                                         parentId |-> c.parentId]),
                          !.result = [NoResult EXCEPT !.kind = "ok"]]]
    /\ UNCHANGED <<posts, votes, bookmarks, query>>

-----------------------------------------------------------------------------
(* The comment specification: two posts, and on the first a thread of five
   comments, each the child of the one before *)

InitComment ==
    /\ posts = {[id |-> 1, authorId |-> "U1", createdAt |-> 1, views |-> 0, deleted |-> FALSE],
                [id |-> 2, authorId |-> "U2", createdAt |-> 2, views |-> 0, deleted |-> FALSE]}
    /\ comments = {[id |-> n, postId |-> 1,
                     parentId |-> IF n = 1 THEN NoParent ELSE n - 1,
                     authorId |-> IF n % 2 = 1 THEN "U1" ELSE "U2",
                     depth |-> n - 1, createdAt |-> n, deleted |-> FALSE] : n \in 1..5}
    /\ votes = [row \in VoteRows |-> 0]
    /\ bookmarks = [row \in BookmarkRows |-> 0]
    /\ call = [r \in Reqs |-> NoCall]
    /\ query = NoQuery
    /\ hist = NoLast
    /\ InitUsers /\ InitServer /\ InitExtra

NextComment ==
    /\ \E r \in Reqs :
          \/ \E user \in {"U1", NoUser}, postId \in PostIds,
                parentId \in CommentIds \cup {NoParent}, content \in Contents :
                createComment(r, user, postId, parentId, content)
          \/ createCommentLoadParent(r)
          \/ createCommentCreate(r)
          \/ \E user \in Users \cup {NoUser}, id \in DeleteIds :
                deleteComment(r, user, id)
          \/ deleteCommentUpdate(r)
          \/ respond(r)
    /\ UNCHANGED <<hist, users, server, extra>>

SpecComment == InitComment /\ [][NextComment]_vars

-----------------------------------------------------------------------------
(* The feed specification: a store that does not change, and queries on it *)

\* the most rows of a feed whose timestamps may coincide
MaxSmallFeed == 4

\* those rows' timestamps are 1..MaxTime
MaxTime == 2

\* the rows of the long feed
MaxFeed == 52

Firsts == {Absent, <<-1>>, <<0>>, <<2>>, <<1000>>}
CommentFirsts == {Absent, <<0>>, <<2>>}

SmallPosts(n, createdAt) ==
    {[id |-> i, authorId |-> "U1", createdAt |-> createdAt[i], views |-> i % 2,
      deleted |-> FALSE] : i \in 1..n}

LongPosts ==
    {[id |-> i, authorId |-> "U1", createdAt |-> i, views |-> 0, deleted |-> FALSE] :
        i \in 1..MaxFeed}

SmallComments(n, createdAt) ==
    {[id |-> i, postId |-> 1, parentId |-> IF i < 3 THEN NoParent ELSE 1,
      authorId |-> "U2", depth |-> IF i < 3 THEN 0 ELSE 1,
      createdAt |-> createdAt[i], deleted |-> FALSE] : i \in 1..n}

InitPage ==
    /\ \/ /\ posts = LongPosts
          /\ comments = {}
       \/ \E n \in 0..MaxSmallFeed : \E createdAt \in [1..n -> 1..MaxTime] :
             \/ /\ posts = SmallPosts(n, createdAt)
                /\ comments = {}
             \/ /\ posts = SmallPosts(1, [i \in {1} |-> 1])
                /\ comments = SmallComments(n, createdAt)
    /\ votes = [row \in VoteRows |-> 0]
    /\ bookmarks = [row \in BookmarkRows |-> 0]
    /\ call = [r \in Reqs |-> NoCall]
    /\ query = NoQuery
    /\ hist = NoLast
    /\ InitUsers /\ InitServer /\ InitExtra

\* the cursors a client has: none, one it made up, the end of the last page
Afters == {NoCursor, NotADate, query.last.endCursor}

\* A client asks for a page and then for one more, of the same feed in the
\* same order.
SameFeed(feed, postId, orderBy) ==
    \/ query.last = NoResponse
    \/ /\ query.prev = NoResponse
       /\ query.last.feed = feed
       /\ query.last.postId = postId
       /\ query.last.orderBy = orderBy

NextPage ==
    /\ \/ \E first \in Firsts, after \in Afters, orderBy \in OrderBys,
             tie \in TieOrders :
             /\ SameFeed("posts", 0, orderBy)
             /\ postsQuery(first, after, orderBy, tie)
       \/ \E postId \in PostIds, first \in CommentFirsts, after \in Afters,
             orderBy \in CommentOrderBys, tie \in TieOrders :
             /\ SameFeed("comments", postId, orderBy)
             /\ commentsQuery(postId, first, after, orderBy, tie)
    /\ UNCHANGED <<hist, users, server, extra>>

SpecPage == InitPage /\ [][NextPage]_vars

-----------------------------------------------------------------------------
(* Post.comments and Comment.replies, the comment connections of
   fieldResolvers, and the specification of the three comment feeds *)

\* Post.comments of the post parent: the listing of Query.comments, the parent
\* being a post the request has already resolved
postComments(parent, first, after, orderBy, tie) ==
    LET request == [NoResponse EXCEPT !.feed = "Post.comments", !.postId = parent,
                                      !.first = first, !.after = after,
                                      !.orderBy = orderBy]
        n == IF first = Absent THEN DefaultCommentsFirst ELSE first[1]
        at == {comment \in comments : after.kind = "id" /\ comment.id = after.value}
        where == {comment \in comments : comment.postId = parent /\ ~comment.deleted}
        from == IF ~Truthy(after) THEN where
                ELSE {comment \in where :
                         \E c \in at : ~CommentPrecedes(orderBy, comment, c)}
        sorted == SortSeq(Listing(from), LAMBDA a, b : CommentBefore(orderBy, tie, a, b))
        found == Slice(sorted, IF ~Truthy(after) THEN 0 ELSE 1, n + 1)
        hasNextPage == Len(found) > n
        result == IF hasNextPage THEN SubSeq(found, 1, Len(found) - 1) ELSE found
    IN  /\ \A r \in Reqs : Idle(r)
        /\ PostLoad(parent) # {}
        /\ Respond([request EXCEPT
                      !.kind = "ok",
                      !.limit = n,
                      !.fetched = Len(found),
                      !.edges = Ids(result),
                      !.hasNextPage = hasNextPage,
                      !.hasPreviousPage = Truthy(after),
                      !.startCursor = IF result = <<>> THEN NoCursor
                                      ELSE IdCursor(result[1].id),
                      !.endCursor = IF result = <<>> THEN NoCursor
                                    ELSE IdCursor(result[Len(result)].id),
                      !.totalCount = Cardinality(where)])
        /\ UNCHANGED <<posts, comments, votes, bookmarks, call>>

\* Comment.replies of the comment parent, oldest first; the response's postId
\* is the parent's id
replies(parent, first, after, tie) ==
    LET request == [NoResponse EXCEPT !.feed = "Comment.replies", !.postId = parent,
                                      !.first = first, !.after = after,
                                      !.orderBy = "OLDEST"]
        n == IF first = Absent THEN DefaultCommentsFirst ELSE first[1]
        at == {comment \in comments : after.kind = "id" /\ comment.id = after.value}
        where == {comment \in comments : comment.parentId = parent /\ ~comment.deleted}
        from == IF ~Truthy(after) THEN where
                ELSE {comment \in where :
                         \E c \in at : ~CommentPrecedes("OLDEST", comment, c)}
        sorted == SortSeq(Listing(from), LAMBDA a, b : CommentBefore("OLDEST", tie, a, b))
        found == Slice(sorted, IF ~Truthy(after) THEN 0 ELSE 1, n + 1)
        hasNextPage == Len(found) > n
        result == IF hasNextPage THEN SubSeq(found, 1, Len(found) - 1) ELSE found
    IN  /\ \A r \in Reqs : Idle(r)
        /\ CommentLoad(parent) # {}
        /\ Respond([request EXCEPT
                      !.kind = "ok",
                      !.limit = n,
                      !.fetched = Len(found),
                      !.edges = Ids(result),
                      !.hasNextPage = hasNextPage,
                      !.hasPreviousPage = Truthy(after),
                      !.startCursor = IF result = <<>> THEN NoCursor
                                      ELSE IdCursor(result[1].id),
                      !.endCursor = IF result = <<>> THEN NoCursor
                                    ELSE IdCursor(result[Len(result)].id),
                      !.totalCount = Cardinality(where)])
        /\ UNCHANGED <<posts, comments, votes, bookmarks, call>>

\* a comment of post 1 and MaxFeed replies to it
LongThread ==
    {[id |-> i, postId |-> 1, parentId |-> IF i = 1 THEN NoParent ELSE 1,
      authorId |-> "U2", depth |-> IF i = 1 THEN 0 ELSE 1,
      createdAt |-> i, deleted |-> FALSE] : i \in 1..(MaxFeed + 1)}

InitCommentFeeds ==
    /\ posts = SmallPosts(1, [i \in {1} |-> 1])
    /\ \/ comments = LongThread
       \/ \E n \in 0..MaxSmallFeed : \E createdAt \in [1..n -> 1..MaxTime] :
             comments = SmallComments(n, createdAt)
    /\ votes = [row \in VoteRows |-> 0]
    /\ bookmarks = [row \in BookmarkRows |-> 0]
    /\ call = [r \in Reqs |-> NoCall]
    /\ query = NoQuery
    /\ hist = NoLast
    /\ InitUsers /\ InitServer /\ InitExtra

NextCommentFeeds ==
    /\ \/ \E postId \in PostIds, first \in Firsts, after \in Afters,
             orderBy \in CommentOrderBys, tie \in TieOrders :
             /\ SameFeed("comments", postId, orderBy)
             /\ commentsQuery(postId, first, after, orderBy, tie)
       \/ \E parent \in PostIds, first \in Firsts, after \in Afters,
             orderBy \in CommentOrderBys, tie \in TieOrders :
             /\ SameFeed("Post.comments", parent, orderBy)
             /\ postComments(parent, first, after, orderBy, tie)
       \/ \E parent \in {1, 2}, first \in Firsts, after \in Afters,
             tie \in TieOrders :
             /\ SameFeed("Comment.replies", parent, "OLDEST")
             /\ replies(parent, first, after, tie)
    /\ UNCHANGED <<hist, users, server, extra>>

SpecCommentFeeds == InitCommentFeeds /\ [][NextCommentFeeds]_vars

-----------------------------------------------------------------------------
(* The event bus (pubsub), the SSE endpoint of server.ts and the iterators
   of subscriptionResolvers *)

\* SUBSCRIPTION_EVENTS
TriggerNames ==
    {"COMMENT_ADDED", "COMMENT_DELETED", "POST_UPDATED", "VOTE_UPDATED",
     "NOTIFICATION_RECEIVED", "USER_TYPING"}

\* the fields of a payload that a filter or a frame reads; the others are 0 or Null
NoPayload ==
    [triggerName |-> Null, id |-> 0, postId |-> 0, targetId |-> 0, targetType |-> Null,
     commentPostId |-> 0, userId |-> NoUser]

\* publishCommentAdded({...comment, postId: input.postId})
CommentAddedPayloads ==
    {[NoPayload EXCEPT !.triggerName = "COMMENT_ADDED", !.postId = post.id] :
        post \in posts}

\* publishCommentDeleted({id, postId, parentId}), of a stored comment
CommentDeletedPayloads ==
    {[NoPayload EXCEPT !.triggerName = "COMMENT_DELETED", !.id = comment.id,
                       !.postId = comment.postId] : comment \in comments}

\* publishPostUpdated(result)
PostUpdatedPayloads ==
    {[NoPayload EXCEPT !.triggerName = "POST_UPDATED", !.id = post.id] : post \in posts}

\* publishVoteUpdated({targetId, targetType: dbTargetType, ..., commentPostId}):
\* commentPostId is the postId of the comment voted on, undefined for a post
VoteUpdatedPayloads ==
    {[NoPayload EXCEPT !.triggerName = "VOTE_UPDATED", !.targetId = post.id,
                       !.targetType = ToLowerCase("POST")] : post \in posts}
    \cup {[NoPayload EXCEPT !.triggerName = "VOTE_UPDATED", !.targetId = comment.id,
                            !.targetType = ToLowerCase("COMMENT"),
                            !.commentPostId = comment.postId] : comment \in comments}

\* publishNotification(notification)
NotificationPayloads ==
    {[NoPayload EXCEPT !.triggerName = "NOTIFICATION_RECEIVED", !.userId = user] :
        user \in Users}

\* publishUserTyping({userId, username, postId})
UserTypingPayload(userId, postId) ==
    [NoPayload EXCEPT !.triggerName = "USER_TYPING", !.userId = userId, !.postId = postId]

\* a frame of the event stream: the fields of its JSON that name what it is about
Frame(type, postId, id, targetType) ==
    [type |-> type, postId |-> postId, id |-> id, targetType |-> targetType]

MutConnectedFrameOfNoPost(postId) == Frame("connected", 0, 0, Null)

\* data: {"type":"connected","postId":...}
ConnectedFrame(postId) == Frame("connected", postId, 0, Null)

\* ": heartbeat"
HeartbeatFrame == Frame("heartbeat", 0, 0, Null)

\* the three listeners of a connection for postId: what each writes for a payload
onMessage(postId, payload) ==
    IF payload.triggerName = "VOTE_UPDATED"
    THEN LET isPostVote == payload.targetType = "post" /\ payload.targetId = postId
             isCommentVote == /\ payload.targetType = "comment"
                              /\ payload.commentPostId = postId
         IN  IF isPostVote \/ isCommentVote
             THEN <<Frame("voteUpdated", 0, payload.targetId, payload.targetType)>>
             ELSE <<>>
    ELSE IF payload.triggerName = "COMMENT_ADDED"
    THEN IF payload.postId = postId
         THEN <<Frame("commentAdded", payload.postId, payload.id, Null)>>
         ELSE <<>>
    ELSE IF payload.triggerName = "COMMENT_DELETED"
    THEN IF payload.postId = postId
         THEN <<Frame("commentDeleted", payload.postId, payload.id, Null)>>
         ELSE <<>>
    ELSE <<>>

\* the triggers a connection subscribes to, in the order it does
ConnectionTriggers == <<"VOTE_UPDATED", "COMMENT_ADDED", "COMMENT_DELETED">>

\* the fields of Subscription and the trigger of each
SubscriptionFields ==
    {"commentAdded", "postUpdated", "voteUpdated", "notificationReceived", "userTyping"}

TriggerOf(field) ==
    CASE field = "commentAdded" -> "COMMENT_ADDED"
      [] field = "postUpdated" -> "POST_UPDATED"
      [] field = "voteUpdated" -> "VOTE_UPDATED"
      [] field = "notificationReceived" -> "NOTIFICATION_RECEIVED"
      [] field = "userTyping" -> "USER_TYPING"

MutFilterPassesAll(iterator, payload) == TRUE

\* the filter of withFilter, for the iterator's field, variables and context
Filter(iterator, payload) ==
    CASE iterator.field = "commentAdded" -> payload.postId = iterator.postId
      [] iterator.field = "postUpdated" -> payload.id = iterator.postId
      [] iterator.field = "voteUpdated" ->
            IF iterator.postId # 0
            THEN payload.targetType = "POST" /\ payload.targetId = iterator.postId
            ELSE IF iterator.commentId # 0
            THEN payload.targetType = "COMMENT" /\ payload.targetId = iterator.commentId
            ELSE FALSE
      [] iterator.field = "notificationReceived" ->
            iterator.user # NoUser /\ payload.userId = iterator.user
      [] iterator.field = "userTyping" -> payload.postId = iterator.postId

\* pubsub.unsubscribe(subId), for each of ids
MutUnsubscribeNothing(registered, ids) == registered

Unsubscribe(registered, ids) == {sub \in registered : sub.id \notin ids}

MutPublishToEveryConnection(payload) ==
    /\ connections' =
           [c \in ConnIds |->
               IF connections[c].state = "none" THEN connections[c]
               ELSE [connections[c] EXCEPT
                       !.frames = @ \o onMessage(connections[c].postId, payload)]]
    /\ UNCHANGED <<iterators, subscriptions, subIdCounter>>

\* pubsub.publish(triggerName, payload): every listener of the trigger runs.
\* A connection has one listener a trigger, and writes unless its response has
\* ended or is destroyed.  An iterator hands the payload to the next() that
\* waits, if one does: withFilter gives it to the client when the filter
\* passes, and calls next() again when not.
publish(payload) ==
    LET heard(kind, owner) ==
            \E sub \in subscriptions : /\ sub.triggerName = payload.triggerName
                                       /\ sub.kind = kind
                                       /\ sub.owner = owner
    IN  /\ connections' =
               [c \in ConnIds |->
                   LET connection == connections[c]
                   IN  IF /\ heard("sse", c)
                          /\ ~(connection.ended \/ connection.destroyed)
                       THEN [connection EXCEPT
                               !.frames = @ \o onMessage(connection.postId, payload)]
                       ELSE connection]
        /\ iterators' =
               [i \in IterIds |->
                   LET iterator == iterators[i]
                   IN  IF /\ heard("iterator", i)
                          /\ iterator.listeners > 0
                          /\ Filter(iterator, payload)
                       THEN [iterator EXCEPT !.listeners = 0,
                                             !.delivered = Append(@, payload)]
                       ELSE iterator]
        /\ UNCHANGED <<subscriptions, subIdCounter>>

\* GET /api/posts/:postId/events, up to its first await: the connected frame is
\* written and the listener of VOTE_UPDATED registered
connect(c, postId) ==
    /\ connections[c].state = "none"
    /\ connections' = [connections EXCEPT ![c] =
           [NoConnection EXCEPT !.state = "subscribing", !.postId = postId,
                                !.frames = <<ConnectedFrame(postId)>>,
                                !.subscriptionIds = {subIdCounter + 1}]]
    /\ subscriptions' = subscriptions \cup
           {[id |-> subIdCounter + 1, triggerName |-> ConnectionTriggers[1],
             kind |-> "sse", owner |-> c]}
    /\ subIdCounter' = subIdCounter + 1
    /\ UNCHANGED <<posts, comments, votes, bookmarks, call, query, users, extra,
                   typingUsers, now, activeUsers, iterators>>

\* the handler from one await of pubsub.subscribe to the next: the next
\* listener is registered; after the last, setInterval starts the heartbeat and
\* req.on('close', ...) is set
connectSubscribe(c) ==
    LET n == Cardinality(connections[c].subscriptionIds)
    IN  /\ connections[c].state = "subscribing"
        /\ IF n < Len(ConnectionTriggers)
           THEN /\ connections' = [connections EXCEPT
                                     ![c].subscriptionIds = @ \cup {subIdCounter + 1}]
                /\ subscriptions' = subscriptions \cup
                       {[id |-> subIdCounter + 1, triggerName |-> ConnectionTriggers[n + 1],
                         kind |-> "sse", owner |-> c]}
                /\ subIdCounter' = subIdCounter + 1
           ELSE /\ connections' = [connections EXCEPT ![c].state = "open",
                                                      ![c].heartbeat = TRUE]
                /\ UNCHANGED <<subscriptions, subIdCounter>>
        /\ UNCHANGED <<posts, comments, votes, bookmarks, call, query, users, extra,
                       typingUsers, now, activeUsers, iterators>>

\* the client goes away: the socket is destroyed, and 'close' is to come, which
\* the loop emits when the handler has run to its end
disconnect(c) ==
    /\ connections[c].state \in {"subscribing", "open"}
    /\ ~connections[c].destroyed
    /\ connections' = [connections EXCEPT ![c].destroyed = TRUE]
    /\ UNCHANGED <<posts, comments, votes, bookmarks, call, query, users, extra,
                   typingUsers, now, activeUsers, subscriptions, subIdCounter, iterators>>

\* the callback of setInterval(..., 30000): the write of a heartbeat, which on
\* a destroyed socket throws or does not
heartbeat(c) ==
    /\ connections[c].heartbeat
    /\ \/ /\ ~connections[c].destroyed
          /\ Len(connections[c].frames) < MaxFrames
          /\ connections' = [connections EXCEPT ![c].frames = Append(@, HeartbeatFrame)]
          /\ UNCHANGED subscriptions
       \/ /\ connections[c].destroyed
          /\ UNCHANGED <<connections, subscriptions>>
       \/ /\ connections[c].destroyed
          /\ connections' = [connections EXCEPT ![c].heartbeat = FALSE]
          /\ subscriptions' = Unsubscribe(subscriptions, connections[c].subscriptionIds)
    /\ UNCHANGED <<posts, comments, votes, bookmarks, call, query, users, extra,
                   typingUsers, now, activeUsers, subIdCounter, iterators>>

\* req.on('close', ...)
close(c) ==
    /\ connections[c].state = "open"
    /\ connections[c].destroyed
    /\ connections' = [connections EXCEPT ![c].state = "closed",
                                          ![c].heartbeat = FALSE,
                                          ![c].ended = TRUE]
    /\ subscriptions' = Unsubscribe(subscriptions, connections[c].subscriptionIds)
    /\ UNCHANGED <<posts, comments, votes, bookmarks, call, query, users, extra,
                   typingUsers, now, activeUsers, subIdCounter, iterators>>

\* subscribe of a Subscription field: createAsyncIterator(trigger), whose
\* constructor registers the iterator's listener with pubsub
subscribe(i, field, postId, commentId, user) ==
    /\ iterators[i].field = Null
    /\ iterators' = [iterators EXCEPT ![i] =
           [NoIterator EXCEPT !.state = "live", !.field = field, !.postId = postId,
                              !.commentId = commentId, !.user = user]]
    /\ subscriptions' = subscriptions \cup
           {[id |-> subIdCounter + 1, triggerName |-> TriggerOf(field),
             kind |-> "iterator", owner |-> i]}
    /\ subIdCounter' = subIdCounter + 1
    /\ UNCHANGED <<posts, comments, votes, bookmarks, call, query, users, extra,
                   typingUsers, now, activeUsers, connections>>

\* SubscriptionAsyncIterator.next(), which the executor calls when it has no
\* call of next() waiting
next(i) ==
    /\ iterators[i].state = "live"
    /\ iterators[i].listeners = 0
    /\ iterators' = [iterators EXCEPT ![i].listeners =
                                         IF iterators[i].isComplete THEN 0 ELSE 1]
    /\ UNCHANGED <<posts, comments, votes, bookmarks, call, query, users, extra,
                   typingUsers, now, activeUsers, subscriptions, subIdCounter,
                   connections>>

\* SubscriptionAsyncIterator.return(): the client has unsubscribed
return(i) ==
    /\ iterators[i].state = "live"
    /\ iterators' = [iterators EXCEPT ![i].state = "complete",
                                      ![i].isComplete = TRUE,
                                      ![i].listeners = 0]
    /\ UNCHANGED <<posts, comments, votes, bookmarks, call, query, users, extra,
                   typingUsers, now, activeUsers, subscriptions, subIdCounter,
                   connections>>

\* SubscriptionAsyncIterator.throw(error): the operation has failed
throw(i) ==
    /\ iterators[i].state = "live"
    /\ iterators' = [iterators EXCEPT ![i].state = "complete",
                                      ![i].isComplete = TRUE,
                                      ![i].listeners = 0]
    /\ UNCHANGED <<posts, comments, votes, bookmarks, call, query, users, extra,
                   typingUsers, now, activeUsers, subscriptions, subIdCounter,
                   connections>>

\* posts 1 and 2, comment 3 of post 1 and comment 4 of post 2
InitLive ==
    /\ posts = {[id |-> i, authorId |-> "U1", createdAt |-> i, views |-> 0,
                 deleted |-> FALSE] : i \in {1, 2}}
    /\ comments = {[id |-> i + 2, postId |-> i, parentId |-> NoParent, authorId |-> "U2",
                    depth |-> 0, createdAt |-> i, deleted |-> FALSE] : i \in {1, 2}}
    /\ votes = [row \in VoteRows |-> 0]
    /\ bookmarks = [row \in BookmarkRows |-> 0]
    /\ call = [r \in Reqs |-> NoCall]
    /\ query = NoQuery
    /\ hist = [event |-> NoPayload, n |-> 0, heardBy |-> {}]
    /\ InitUsers /\ InitServer /\ InitExtra

\* a resolver publishes payload; hist.event is the last payload published,
\* hist.n their number and hist.heardBy the listeners it was handed to
published(payload) ==
    /\ hist.n < MaxPublished
    /\ publish(payload)
    /\ hist' = [event |-> payload, n |-> hist.n + 1,
                heardBy |-> {[kind |-> sub.kind, owner |-> sub.owner] :
                                sub \in {x \in subscriptions :
                                            x.triggerName = payload.triggerName}}]
    /\ UNCHANGED <<posts, comments, votes, bookmarks, call, query, users, extra,
                   typingUsers, now, activeUsers>>

NextLive ==
    \/ \E payload \in CommentAddedPayloads : published(payload)
    \/ \E payload \in CommentDeletedPayloads : published(payload)
    \/ \E payload \in PostUpdatedPayloads : published(payload)
    \/ \E payload \in VoteUpdatedPayloads : published(payload)
    \/ \E payload \in NotificationPayloads : published(payload)
    \/ \E user \in {"U1"}, postId \in PostIds :
          published(UserTypingPayload(user, postId))
    \/ /\ \/ \E c \in ConnIds :
                \/ \E postId \in PostIds : connect(c, postId)
                \/ connectSubscribe(c)
                \/ disconnect(c)
                \/ heartbeat(c)
                \/ close(c)
          \/ \E i \in IterIds :
                \/ \E field \in {"commentAdded", "postUpdated", "userTyping"},
                      postId \in PostIds :
                      subscribe(i, field, postId, 0, "U1")
                \/ \E variables \in {<<1, 0>>, <<2, 0>>, <<0, 3>>, <<0, 0>>} :
                      subscribe(i, "voteUpdated", variables[1], variables[2], "U1")
                \/ \E user \in {"U1", NoUser} :
                      subscribe(i, "notificationReceived", 0, 0, user)
                \/ next(i)
                \/ return(i)
                \/ throw(i)
       /\ UNCHANGED hist

SpecLive == InitLive /\ [][NextLive]_vars

-----------------------------------------------------------------------------
(* typingResolvers: startTyping, stopTyping, getTypingUsers and the sweep *)

\* const timeout = 5000
timeout == 5000

\* the milliseconds that pass between two steps
Ticks == {2500, 2501}

MutActiveAlways(at, lastTyping) == TRUE

\* now - userData.lastTyping <= timeout
Active(at, lastTyping) == at - lastTyping <= timeout

MutExpiredAtTheThreshold(at, lastTyping) == at - lastTyping >= timeout

\* now - userData.lastTyping > timeout
Expired(at, lastTyping) == at - lastTyping > timeout

\* if (users.size === 0): those of the posts whose map has no entry
Empty(entries, postIds) ==
    {postId \in postIds : \A entry \in entries : entry.postId # postId}

\* the typing map without the entry of userId for postId
Without(postId, userId) ==
    {entry \in typingUsers : ~(entry.postId = postId /\ entry.userId = userId)}

\* time passes
tick(ms) ==
    /\ now + ms <= MaxNow
    /\ now' = now + ms
    /\ UNCHANGED <<posts, comments, votes, bookmarks, call, query, users, extra,
                   typingUsers, activeUsers, subscriptions, subIdCounter,
                   connections, iterators>>

\* Mutation.startTyping: an Error without a caller; else the caller's entry
\* for the post is set to now, and the event is published
startTyping(user, postId) ==
    /\ IF user = NoUser
       THEN UNCHANGED <<typingUsers, typingPosts, subscriptions, subIdCounter,
                        connections, iterators>>
       ELSE /\ typingPosts' = typingPosts \cup {postId}
            /\ typingUsers' = Without(postId, user)
                                \cup {[postId |-> postId, userId |-> user,
                                       lastTyping |-> now]}
            /\ publish(UserTypingPayload(user, postId))
    /\ UNCHANGED <<posts, comments, votes, bookmarks, call, query, users,
                   topics, userTopics, dataLoaders, path, triggers, now, activeUsers>>

\* Mutation.stopTyping: the caller's entry for the post is deleted if the post
\* has a map, and then the map if it has no entry
stopTyping(user, postId) ==
    /\ IF user = NoUser \/ postId \notin typingPosts
       THEN UNCHANGED <<typingUsers, typingPosts>>
       ELSE /\ typingUsers' = Without(postId, user)
            /\ typingPosts' = typingPosts \ Empty(typingUsers', {postId})
    /\ UNCHANGED <<posts, comments, votes, bookmarks, call, query, users,
                   topics, userTopics, dataLoaders, path, triggers, now, activeUsers,
                   subscriptions, subIdCounter, connections, iterators>>

\* cleanupTypingUsers, the callback of setInterval(..., 2000): of the entries
\* of each post that has a map, those that are too old are deleted, and then
\* the post's map if it has no entry
cleanupTypingUsers ==
    /\ typingUsers' = {entry \in typingUsers :
                          ~(entry.postId \in typingPosts /\ Expired(now, entry.lastTyping))}
    /\ typingPosts' = typingPosts \ Empty(typingUsers', typingPosts)
    /\ UNCHANGED <<posts, comments, votes, bookmarks, call, query, users,
                   topics, userTopics, dataLoaders, path, triggers, now, activeUsers,
                   subscriptions, subIdCounter, connections, iterators>>

\* Query.getTypingUsers
getTypingUsers(postId) ==
    /\ activeUsers' =
           [postId |-> postId, at |-> now,
            users |-> {entry.userId : entry \in
                          {e \in typingUsers : /\ postId \in typingPosts
                                               /\ e.postId = postId
                                               /\ Active(now, e.lastTyping)}}]
    /\ UNCHANGED <<posts, comments, votes, bookmarks, call, query, users, extra,
                   typingUsers, now, subscriptions, subIdCounter, connections,
                   iterators>>

\* no startTyping that stopTyping has not followed
NotTyping == -1

InitTyping ==
    /\ posts = {[id |-> i, authorId |-> "U1", createdAt |-> i, views |-> 0,
                 deleted |-> FALSE] : i \in {1, 2}}
    /\ comments = {}
    /\ votes = [row \in VoteRows |-> 0]
    /\ bookmarks = [row \in BookmarkRows |-> 0]
    /\ call = [r \in Reqs |-> NoCall]
    /\ query = NoQuery
    /\ hist = [started |-> [p \in PostIds |-> [u \in Users |-> NotTyping]],
               asked |-> [p \in PostIds |-> [u \in Users |-> NotTyping]]]
    /\ InitUsers /\ InitServer /\ InitExtra

\* hist.started: when each user last started typing on each post, if no
\* stopTyping came after; hist.asked: the same, as it was at the last query
NextTyping ==
    \/ \E ms \in Ticks : tick(ms) /\ UNCHANGED hist
    \/ \E user \in Users \cup {NoUser}, postId \in PostIds :
          /\ startTyping(user, postId)
          /\ hist' = IF user = NoUser THEN hist
                     ELSE [hist EXCEPT !.started[postId][user] = now]
    \/ \E user \in Users \cup {NoUser}, postId \in PostIds :
          /\ stopTyping(user, postId)
          /\ hist' = IF user = NoUser THEN hist
                     ELSE [hist EXCEPT !.started[postId][user] = NotTyping]
    \/ cleanupTypingUsers /\ UNCHANGED hist
    \/ \E postId \in PostIds :
          /\ getTypingUsers(postId)
          /\ hist' = [hist EXCEPT !.asked = hist.started]

SpecTyping == InitTyping /\ [][NextTyping]_vars

-----------------------------------------------------------------------------
(* postResolvers.Mutation: updatePost and deletePost *)

\* title.length > 300
MaxTitleLength == 300

\* the titles a client sends, and the length of each
Titles == {"new", "long"}
TitleLength(title) == IF title = "long" THEN MaxTitleLength + 1 ELSE 3

\* prisma.post.findUnique({ where: { id } }): the row with this id
PostFindUnique(id) == {p \in posts : p.id = id}

\* publishPostUpdated(post): pubsub.publish(POST_UPDATED, { postUpdated: post })
publishPostUpdated(events, post) ==
    Append(events, [channel |-> "POST_UPDATED", postUpdated |-> post])

\* updatePost(id, { title }), up to its first write
updatePost(r, user, id, title) ==
    /\ Quiet /\ Idle(r)
    /\ LET c == [NoCall EXCEPT !.op = "updatePost", !.user = user, !.targetId = id,
                               !.voteType = title]
           existingPost == PostFindUnique(id)
       IN  Begin(r, IF user = NoUser
                    THEN [c EXCEPT !.pc = "done", !.result = Failure("AUTHENTICATION_ERROR")]
                    ELSE IF existingPost = {}
                    THEN [c EXCEPT !.pc = "done", !.result = Failure("NOT_FOUND")]
                    ELSE IF Row(existingPost).authorId # user /\ user \notin Admins
                    THEN [c EXCEPT !.pc = "done", !.result = Failure("AUTHORIZATION_ERROR")]
                    ELSE IF TitleLength(title) > MaxTitleLength
                    THEN [c EXCEPT !.pc = "done", !.result = Failure("VALIDATION_ERROR")]
                    ELSE [c EXCEPT !.pc = "update"])
    /\ UNCHANGED <<posts, comments, votes, bookmarks, query>>

\* const post = await prisma.post.update({ where: { id }, data: updateData })
updatePostUpdate(r) ==
    /\ Quiet
    /\ call[r].op = "updatePost" /\ call[r].pc = "update"
    /\ posts' = {IF p.id = call[r].targetId THEN [p EXCEPT !.title = call[r].voteType]
                 ELSE p : p \in posts}
    /\ call' = [call EXCEPT ![r].pc = "findVotes"]
    /\ UNCHANGED <<comments, votes, bookmarks, query>>

\* const votes = await prisma.vote.findMany(...): voteCount: calculateVoteCount(votes)
updatePostFindVotes(r) ==
    /\ Quiet
    /\ call[r].op = "updatePost" /\ call[r].pc = "findVotes"
    /\ call' = [call EXCEPT ![r].pc = "findBookmarks",
                            ![r].result.voteCount =
                                calculateVoteCount(FindManyVotes(votes, call[r].targetId,
                                                                 "post"))]
    /\ UNCHANGED <<posts, comments, votes, bookmarks, query>>

\* const bookmarks = await prisma.bookmark.findMany(...); publishPostUpdated(result);
\* return result
updatePostFindBookmarks(r) ==
    /\ Quiet
    /\ call[r].op = "updatePost" /\ call[r].pc = "findBookmarks"
    /\ call' = [call EXCEPT ![r].pc = "done",
                            ![r].result.kind = "ok",
                            ![r].events = publishPostUpdated(@, [id |-> call[r].targetId])]
    /\ UNCHANGED <<posts, comments, votes, bookmarks, query>>

\* deletePost(id), up to its write
deletePost(r, user, id) ==
    /\ Quiet /\ Idle(r)
    /\ LET c == [NoCall EXCEPT !.op = "deletePost", !.user = user, !.targetId = id]
           post == PostFindUnique(id)
       IN  Begin(r, IF user = NoUser
                    THEN [c EXCEPT !.pc = "done", !.result = Failure("AUTHENTICATION_ERROR")]
                    ELSE IF post = {}
                    THEN [c EXCEPT !.pc = "done", !.result = Failure("NOT_FOUND")]
                    ELSE IF Row(post).authorId # user /\ user \notin Admins
                    THEN [c EXCEPT !.pc = "done", !.result = Failure("AUTHORIZATION_ERROR")]
                    ELSE [c EXCEPT !.pc = "softDelete"])
    /\ UNCHANGED <<posts, comments, votes, bookmarks, query>>

\* await prisma.post.update({ where: { id }, data: { deletedAt: new Date() } });
\* return true
deletePostUpdate(r) ==
    /\ Quiet
    /\ call[r].op = "deletePost" /\ call[r].pc = "softDelete"
    /\ posts' = {IF p.id = call[r].targetId THEN [p EXCEPT !.deleted = TRUE] ELSE p :
                    p \in posts}
    /\ call' = [call EXCEPT ![r].pc = "done", ![r].result.kind = "ok"]
    /\ UNCHANGED <<comments, votes, bookmarks, query>>

\* post 1 of U2 and post 2 of U1
InitPost ==
    /\ posts = {[id |-> 1, authorId |-> "U2", createdAt |-> 1, views |-> 0,
                 deleted |-> FALSE, title |-> "old"],
                [id |-> 2, authorId |-> "U1", createdAt |-> 2, views |-> 0,
                 deleted |-> FALSE, title |-> "old"]}
    /\ comments = {}
    /\ votes = [row \in VoteRows |-> 0]
    /\ bookmarks = [row \in BookmarkRows |-> 0]
    /\ call = [r \in Reqs |-> NoCall]
    /\ query = NoQuery
    /\ hist = NoLast
    /\ InitUsers /\ InitServer /\ InitExtra

\* the calls on posts: the post mutations, and bookmarkPost, which reads the
\* post through its loader
NextPost ==
    /\ \E r \in Reqs :
          \/ \E user \in {"U1", NoUser}, id \in PostIds \cup {3}, title \in Titles :
                updatePost(r, user, id, title)
          \/ updatePostUpdate(r)
          \/ updatePostFindVotes(r)
          \/ updatePostFindBookmarks(r)
          \/ \E user \in {"U1", NoUser}, id \in PostIds \cup {3} :
                deletePost(r, user, id)
          \/ deletePostUpdate(r)
          \/ \E postId \in PostIds : bookmarkPost(r, "U1", postId)
          \/ bookmarkPostLoadBookmark(r)
          \/ bookmarkPostCreate(r)
          \/ respond(r)
    /\ UNCHANGED <<hist, users, server, extra>>

SpecPost == InitPost /\ [][NextPost]_vars

-----------------------------------------------------------------------------
(* Votes on a comment that deleteComment may soft-delete *)

\* the payload that pubsub hands to the listeners for voteData: a commentPostId
\* that is undefined is equal to no postId
VoteUpdatedPayload(voteData) ==
    [NoPayload EXCEPT !.triggerName = "VOTE_UPDATED",
                      !.targetId = voteData.targetId,
                      !.targetType = voteData.targetType,
                      !.commentPostId = IF voteData.commentPostId = {} THEN 0
                                        ELSE Row(voteData.commentPostId)]

\* calls of vote, removeVote and deleteComment that do not overlap
NextVoteDelete ==
    /\ \E r \in Reqs :
          \/ /\ \A q \in Reqs : Idle(q)
             /\ voteCalls(r)
          \/ voteSteps(r)
          \/ /\ \A q \in Reqs : Idle(q)
             /\ deleteComment(r, "U2", 2)
          \/ deleteCommentUpdate(r)
    /\ NoteVotes
    /\ update_reputation_trigger
    /\ UNCHANGED <<server, extra>>

SpecVoteDelete == InitVote /\ [][NextVoteDelete]_vars

(* Delivery of a mutation's events to the listeners of the bus *)

MaxMutations == 2

\* the payload a publish helper hands to pubsub.publish for an event
PayloadOf(event) ==
    IF event.channel = "VOTE_UPDATED" THEN VoteUpdatedPayload(event.voteUpdated)
    ELSE IF event.channel = "COMMENT_ADDED"
    THEN [NoPayload EXCEPT !.triggerName = "COMMENT_ADDED",
                           !.id = event.commentAdded.id,
                           !.postId = event.commentAdded.postId]
    ELSE [NoPayload EXCEPT !.triggerName = "COMMENT_DELETED",
                           !.id = event.commentDeleted.id,
                           !.postId = Row(event.commentDeleted.postId)]

MutUncaught(outcome) == outcome

\* try { ... try { res.write(message) } catch (writeError) { log } ... }
\* catch (error) { log }: whatever happens in it, the listener returns
Caught(outcome) == IF outcome = "threw" THEN "returned" ELSE outcome

\* pubsub.publish(trigger, payload): the emitter calls the listeners of the
\* trigger one after the other, in the order they subscribed, and a listener
\* that throws ends the round. writeThrows are the connections where res.write
\* throws. The result is the connections and iterators after the round, whether
\* the round threw and the connections whose write failed.
emit(payload, writeThrows) ==
    LET start == [connections |-> connections, iterators |-> iterators,
                  thrown |-> FALSE, failed |-> {}]
        after[k \in 0..subIdCounter] ==
            IF k = 0 THEN start
            ELSE LET state == after[k - 1]
                     subs == {sub \in subscriptions :
                                 sub.id = k /\ sub.triggerName = payload.triggerName}
                 IN  IF subs = {} \/ state.thrown THEN state
                     ELSE IF Row(subs).kind = "sse"
                     THEN LET c == Row(subs).owner
                              connection == state.connections[c]
                              frames == onMessage(connection.postId, payload)
                              write == IF \/ frames = <<>>
                                          \/ connection.ended \/ connection.destroyed
                                       THEN "returned"
                                       ELSE IF c \in writeThrows THEN "threw"
                                       ELSE "written"
                          IN  [state EXCEPT
                                 !.connections[c].frames =
                                     IF write = "written" THEN @ \o frames ELSE @,
                                 !.thrown = Caught(write) = "threw",
                                 !.failed = IF write = "threw" THEN @ \cup {c} ELSE @]
                     ELSE LET i == Row(subs).owner
                              iterator == state.iterators[i]
                          IN  IF iterator.listeners > 0 /\ Filter(iterator, payload)
                              THEN [state EXCEPT
                                      !.iterators[i].listeners = 0,
                                      !.iterators[i].delivered = Append(@, payload)]
                              ELSE state
    IN  after[subIdCounter]

\* what the step of a resolver that has just been taken does to the bus: the
\* event it has published, if any, goes to the listeners; hist keeps the number
\* of mutations begun and how the last round of the emitter went
delivery ==
    LET publishing == {r \in Reqs : Len(call'[r].events) > Len(call[r].events)}
        begun == {r \in Reqs : Idle(r) /\ call'[r].pc # "idle"}
    IN  /\ IF publishing = {}
           THEN /\ UNCHANGED <<connections, iterators>>
                /\ hist' = [hist EXCEPT !.n = @ + Cardinality(begun)]
           ELSE \E writeThrows \in SUBSET ConnIds :
                   LET events == call'[Row(publishing)].events
                       payload == PayloadOf(events[Len(events)])
                       state == emit(payload, writeThrows)
                   IN  /\ connections' = state.connections
                       /\ iterators' = state.iterators
                       /\ hist' = [n |-> hist.n + Cardinality(begun), event |-> payload,
                                   thrown |-> state.thrown, failed |-> state.failed]
        /\ UNCHANGED <<users, typingUsers, now, activeUsers, subscriptions, subIdCounter,
                     extra>>

\* posts 1 and 2 and a thread of five comments on post 1
InitDeliver ==
    /\ posts = {[id |-> 1, authorId |-> "U1", createdAt |-> 1, views |-> 0, deleted |-> FALSE],
                [id |-> 2, authorId |-> "U2", createdAt |-> 2, views |-> 0, deleted |-> FALSE]}
    /\ comments = {[id |-> n, postId |-> 1,
                     parentId |-> IF n = 1 THEN NoParent ELSE n - 1,
                     authorId |-> IF n % 2 = 1 THEN "U1" ELSE "U2",
                     depth |-> n - 1, createdAt |-> n, deleted |-> FALSE] : n \in 1..5}
    /\ votes = [row \in VoteRows |-> 0]
    /\ bookmarks = [row \in BookmarkRows |-> 0]
    /\ call = [r \in Reqs |-> NoCall]
    /\ query = NoQuery
    /\ hist = [n |-> 0, event |-> NoPayload, thrown |-> FALSE, failed |-> {}]
    /\ InitUsers /\ InitServer /\ InitExtra

\* the mutations that publish, one call at a time, while a client of the event
\* stream of post 1 and a subscriber of commentAdded come and go; the
\* reputations, which the events do not carry, are left as they are
NextDeliver ==
    \/ /\ \/ /\ hist.n < MaxMutations
             /\ \/ \E targetId \in {1, 2} : vote("R1", "U1", targetId, "POST", "UPVOTE")
                \/ vote("R1", "U1", 2, "COMMENT", "UPVOTE")
                \/ \E targetType \in TargetTypes : removeVote("R1", "U1", 2, targetType)
                \/ \E content \in Contents, postId \in PostIds :
                      createComment("R1", "U1", postId, NoParent, content)
                \/ deleteComment("R1", "U2", 5)
          \/ voteSteps("R1")
          \/ createCommentCreate("R1")
          \/ deleteCommentUpdate("R1")
       /\ delivery
    \/ /\ \/ \E c \in ConnIds :
                \/ connect(c, 1)
                \/ connectSubscribe(c)
                \/ disconnect(c)
          \/ \E i \in IterIds :
                \/ subscribe(i, "commentAdded", 1, 0, "U1")
                \/ next(i)
       /\ UNCHANGED hist

SpecDeliver == InitDeliver /\ [][NextDeliver]_vars

(* topicResolvers.Mutation: subscribeTopic, unsubscribeTopic *)

\* the topic ids a client sends: the stored ones and one that is not
TopicArgs == TopicIds \cup {3}

MutUserTopicUpsert(table, row) == [table |-> table \cup {row}, error |-> Null]

\* prisma.userTopic.create({data}): PRIMARY KEY (user_id, topic_id)
UserTopicCreate(table, row) ==
    IF row \in table THEN [table |-> table, error |-> "P2002"]
    ELSE [table |-> table \cup {row}, error |-> Null]

\* prisma.userTopic.delete({where: {userId_topicId}})
UserTopicDelete(table, row) ==
    IF row \notin table THEN [table |-> table, error |-> "P2025"]
    ELSE [table |-> table \ {row}, error |-> Null]

\* topicSubscriptionLoader.load({userId, topicId}): the key is a new object, so
\* the rows are read from the table
TopicSubscriptionLoad(userId, topicId) ==
    {row \in userTopics : row.userId = userId /\ row.topicId = topicId}

\* subscribeTopic up to its first await
subscribeTopic(r, user, topicId) ==
    /\ Quiet /\ Idle(r)
    /\ LET c == [NoCall EXCEPT !.op = "subscribeTopic", !.user = user, !.targetId = topicId]
       IN  Begin(r, IF user = NoUser
                    THEN [c EXCEPT !.pc = "done", !.result = Failure("AUTHENTICATION_ERROR")]
                    ELSE [c EXCEPT !.pc = "loadTopic"])
    /\ UNCHANGED <<topics, userTopics>>

\* topic = await topicLoader.load(topicId)
subscribeTopicLoadTopic(r) ==
    /\ Quiet
    /\ call[r].op = "subscribeTopic" /\ call[r].pc = "loadTopic"
    /\ call' = [call EXCEPT ![r] =
           IF call[r].targetId \notin DOMAIN topics
           THEN [@ EXCEPT !.pc = "done", !.result = Failure("NOT_FOUND")]
           ELSE [@ EXCEPT !.pc = "loadSubscription"]]
    /\ UNCHANGED <<topics, userTopics>>

\* existingSubscription = await topicSubscriptionLoader.load({userId, topicId})
subscribeTopicLoadSubscription(r) ==
    /\ Quiet
    /\ call[r].op = "subscribeTopic" /\ call[r].pc = "loadSubscription"
    /\ call' = [call EXCEPT ![r] =
           IF TopicSubscriptionLoad(call[r].user, call[r].targetId) # {}
           THEN [@ EXCEPT !.pc = "done", !.result = Failure("CONFLICT")]
           ELSE [@ EXCEPT !.pc = "create"]]
    /\ UNCHANGED <<topics, userTopics>>

\* await prisma.userTopic.create(...)
subscribeTopicCreate(r) ==
    /\ Quiet
    /\ call[r].op = "subscribeTopic" /\ call[r].pc = "create"
    /\ LET w == UserTopicCreate(userTopics, [userId |-> call[r].user,
                                             topicId |-> call[r].targetId])
       IN  /\ userTopics' = w.table
           /\ call' = [call EXCEPT ![r] =
                  IF w.error # Null
                  THEN [@ EXCEPT !.pc = "done", !.result = Failure(w.error)]
                  ELSE [@ EXCEPT !.pc = "increment"]]
    /\ UNCHANGED topics

\* await prisma.topic.update({data: {subscriberCount: {increment: 1}}})
subscribeTopicIncrement(r) ==
    /\ Quiet
    /\ call[r].op = "subscribeTopic" /\ call[r].pc = "increment"
    /\ topics' = [topics EXCEPT ![call[r].targetId] = @ + 1]
    /\ call' = [call EXCEPT ![r].pc = "reload"]
    /\ UNCHANGED userTopics

\* updatedTopic = await prisma.topic.findUnique(...); return {...updatedTopic}
subscribeTopicReload(r) ==
    /\ Quiet
    /\ call[r].op = "subscribeTopic" /\ call[r].pc = "reload"
    /\ call' = [call EXCEPT ![r].pc = "done",
                            ![r].result = [NoResult EXCEPT !.kind = "ok"]]
    /\ UNCHANGED <<topics, userTopics>>

\* unsubscribeTopic up to its first await
unsubscribeTopic(r, user, topicId) ==
    /\ Quiet /\ Idle(r)
    /\ LET c == [NoCall EXCEPT !.op = "unsubscribeTopic", !.user = user,
                               !.targetId = topicId]
       IN  Begin(r, IF user = NoUser
                    THEN [c EXCEPT !.pc = "done", !.result = Failure("AUTHENTICATION_ERROR")]
                    ELSE [c EXCEPT !.pc = "loadSubscription"])
    /\ UNCHANGED <<topics, userTopics>>

\* existingSubscription = await topicSubscriptionLoader.load({userId, topicId})
unsubscribeTopicLoadSubscription(r) ==
    /\ Quiet
    /\ call[r].op = "unsubscribeTopic" /\ call[r].pc = "loadSubscription"
    /\ call' = [call EXCEPT ![r] =
           IF TopicSubscriptionLoad(call[r].user, call[r].targetId) = {}
           THEN [@ EXCEPT !.pc = "done", !.result = Failure("NOT_FOUND")]
           ELSE [@ EXCEPT !.pc = "delete"]]
    /\ UNCHANGED <<topics, userTopics>>

\* await prisma.userTopic.delete(...)
unsubscribeTopicDelete(r) ==
    /\ Quiet
    /\ call[r].op = "unsubscribeTopic" /\ call[r].pc = "delete"
    /\ LET w == UserTopicDelete(userTopics, [userId |-> call[r].user,
                                             topicId |-> call[r].targetId])
       IN  /\ userTopics' = w.table
           /\ call' = [call EXCEPT ![r] =
                  IF w.error # Null
                  THEN [@ EXCEPT !.pc = "done", !.result = Failure(w.error)]
                  ELSE [@ EXCEPT !.pc = "decrement"]]
    /\ UNCHANGED topics

\* await prisma.topic.update({data: {subscriberCount: {decrement: 1}}}); return true
unsubscribeTopicDecrement(r) ==
    /\ Quiet
    /\ call[r].op = "unsubscribeTopic" /\ call[r].pc = "decrement"
    /\ topics' = [topics EXCEPT ![call[r].targetId] = @ - 1]
    /\ call' = [call EXCEPT ![r].pc = "done",
                            ![r].result = [NoResult EXCEPT !.kind = "ok"]]
    /\ UNCHANGED userTopics

\* a response leaves the slot free
respondTopic(r) ==
    /\ call[r].pc = "done"
    /\ call' = [call EXCEPT ![r] = NoCall]
    /\ UNCHANGED <<topics, userTopics>>

InitTopic ==
    /\ posts = {}
    /\ comments = {}
    /\ votes = [row \in VoteRows |-> 0]
    /\ bookmarks = [row \in BookmarkRows |-> 0]
    /\ call = [r \in Reqs |-> NoCall]
    /\ query = NoQuery
    /\ hist = NoLast
    /\ InitUsers /\ InitServer /\ InitExtra

\* calls of subscribeTopic and unsubscribeTopic, overlapping at will
NextTopic ==
    /\ \E r \in Reqs :
          \/ \E user \in Users \cup {NoUser}, topicId \in TopicArgs :
                \/ subscribeTopic(r, user, topicId)
                \/ unsubscribeTopic(r, user, topicId)
          \/ subscribeTopicLoadTopic(r)
          \/ subscribeTopicLoadSubscription(r)
          \/ subscribeTopicCreate(r)
          \/ subscribeTopicIncrement(r)
          \/ subscribeTopicReload(r)
          \/ unsubscribeTopicLoadSubscription(r)
          \/ unsubscribeTopicDelete(r)
          \/ unsubscribeTopicDecrement(r)
          \/ respondTopic(r)
    /\ UNCHANGED <<posts, comments, votes, bookmarks, query, hist, users, server,
                   dataLoaders, typingPosts, path, triggers>>

SpecTopic == InitTopic /\ [][NextTopic]_vars

(* pageInfo of the four paginated listings, asked for with every kind of cursor *)

\* a post with a thread of up to MaxSmallFeed comments, or up to MaxSmallFeed
\* posts, each row a tick later than the one before
InitPageInfo ==
    /\ \E n \in 0..MaxSmallFeed :
          \/ /\ posts = SmallPosts(n, [i \in 1..n |-> i])
             /\ comments = {}
          \/ /\ posts = SmallPosts(1, [i \in {1} |-> 1])
             /\ comments = SmallComments(n, [i \in 1..n |-> i])
    /\ votes = [row \in VoteRows |-> 0]
    /\ bookmarks = [row \in BookmarkRows |-> 0]
    /\ call = [r \in Reqs |-> NoCall]
    /\ query = NoQuery
    /\ hist = NoLast
    /\ InitUsers /\ InitServer /\ InitExtra

\* a page and then one more of the same listing, the cursor being none, the
\* empty string, one made up, or the end of the page before
NextPageInfo ==
    /\ \E first \in CommentFirsts, after \in Afters \cup {EmptyString},
          tie \in TieOrders :
          \/ \E orderBy \in OrderBys :
                /\ SameFeed("posts", 0, orderBy)
                /\ postsQuery(first, after, orderBy, tie)
          \/ \E orderBy \in CommentOrderBys :
                /\ SameFeed("comments", 1, orderBy)
                /\ commentsQuery(1, first, after, orderBy, tie)
          \/ \E orderBy \in CommentOrderBys :
                /\ SameFeed("Post.comments", 1, orderBy)
                /\ postComments(1, first, after, orderBy, tie)
          \/ /\ SameFeed("Comment.replies", 1, "OLDEST")
             /\ replies(1, first, after, tie)
    /\ UNCHANGED <<hist, users, server, extra>>

SpecPageInfo == InitPageInfo /\ [][NextPageInfo]_vars

(* dataloaders: the loaders of a request's context, and the resolvers that
   load through them and clear them *)

\* the objects a request makes as keys of its vote and bookmark loaders
MaxLoads == 2

LoaderNames == {"postLoader", "commentLoader", "voteLoader", "bookmarkLoader"}

\* A key of a loader's memo table, a Map: a string, or an object {userId, id,
\* votableType}.  The Map finds a string by its value and an object by its
\* identity, ref: 0 for a string, and for an object a number no other object
\* of the request has.
LoaderKey(userId, id, votableType, ref) ==
    [userId |-> userId, id |-> id, votableType |-> votableType, ref |-> ref]

StringKey(id) == LoaderKey(NoUser, id, Null, 0)

\* { userId, votableId, votableType } and { userId, postId }: an object literal
\* is a new object
ObjectKey(loaders, userId, id, votableType) ==
    LoaderKey(userId, id, votableType,
              Cardinality(loaders.voteLoader) + Cardinality(loaders.bookmarkLoader) + 1)

\* what a key names, whichever object it is
Named(key) == [key EXCEPT !.ref = 0]

\* the batch function of a loader, for one key: the set of the row found
Fetch(loader, key) ==
    CASE loader = "postLoader" -> PostLoad(key.id)
      [] loader = "commentLoader" -> CommentLoad(key.id)
      [] loader = "voteLoader" ->
            RowsWithKey(votes, VoteKey(key.userId, key.id, key.votableType))
      [] loader = "bookmarkLoader" ->
            {row \in BookmarkRows : /\ bookmarks[row] > 0
                                    /\ row.userId = key.userId
                                    /\ row.postId = key.id}

\* loader.load(key): the memoized value of the key, or else the value fetched,
\* which is memoized
Load(loaders, loader, key) ==
    LET hit == {entry \in loaders[loader] : entry.key = key}
    IN  IF hit # {}
        THEN [loaders |-> loaders, loader |-> loader, key |-> key,
              value |-> Row(hit).value, fetched |-> FALSE]
        ELSE [loaders |-> [loaders EXCEPT ![loader] =
                              @ \cup {[key |-> key, value |-> Fetch(loader, key)]}],
              loader |-> loader, key |-> key,
              value |-> Fetch(loader, key), fetched |-> TRUE]

\* loader.clear(key)
Clear(loaders, loader, key) ==
    [loaders EXCEPT ![loader] = {entry \in @ : entry.key # key}]

MutSharedContext(r) == "R1"

\* context: ({ req, res }) => createContext(req, res): the context of request
\* r is its own
Context(r) == r

\* the history of the loads, for the properties: loads are the loads of the
\* last step; fetched[r] the keys request r has fetched and not cleared since;
\* foreign[r] the keys other requests have written since r began or last
\* wrote them itself; made[r] the entries r's own loads have memoized
NoLoads ==
    [loads |-> <<>>,
     fetched |-> [r \in Reqs |-> {}],
     foreign |-> [r \in Reqs |-> {}],
     made |-> [r \in Reqs |-> [loader \in LoaderNames |-> {}]]]

Name(loader, key) == [loader |-> loader, key |-> Named(key)]

\* request r has made the loads, cleared the keys cleared and written the rows
\* of the keys mutated: the loaders of its context and the history after it
Note(r, loads, after, cleared, mutated) ==
    /\ dataLoaders' = [dataLoaders EXCEPT ![Context(r)] = after]
    /\ hist' =
          [loads |-> [k \in 1..Len(loads) |->
                         [req |-> r, loader |-> loads[k].loader,
                          key |-> Named(loads[k].key),
                          value |-> loads[k].value,
                          fetched |-> loads[k].fetched,
                          known |-> Name(loads[k].loader, loads[k].key) \in hist.fetched[r],
                          fresh |-> Fetch(loads[k].loader, loads[k].key),
                          foreign |-> Name(loads[k].loader, loads[k].key) \in hist.foreign[r],
                          own |-> [key |-> loads[k].key, value |-> loads[k].value]
                                     \in hist.made[r][loads[k].loader]]],
           fetched |-> [hist.fetched EXCEPT ![r] =
                           (@ \cup {Name(loads[k].loader, loads[k].key) :
                                       k \in {j \in 1..Len(loads) : loads[j].fetched}})
                           \ cleared],
           foreign |-> [q \in Reqs |->
                           IF q = r THEN hist.foreign[q] \ mutated
                           ELSE IF Idle(q) THEN hist.foreign[q]
                           ELSE hist.foreign[q] \cup mutated],
           made |-> [hist.made EXCEPT ![r] =
                        [loader \in LoaderNames |->
                            @[loader] \cup
                            {[key |-> loads[k].key, value |-> loads[k].value] :
                                k \in {j \in 1..Len(loads) :
                                          loads[j].fetched /\ loads[j].loader = loader}}]]]

Resolving(r) == call[r].op = "request" /\ call[r].pc = "resolving"

\* a request arrives: createContext makes its loaders
createContext(r) ==
    /\ Idle(r)
    /\ call' = [call EXCEPT ![r] = [NoCall EXCEPT !.op = "request", !.pc = "resolving",
                                                  !.user = "U1"]]
    /\ dataLoaders' = [dataLoaders EXCEPT ![Context(r)] = NoDataLoaders]
    /\ hist' = [loads |-> <<>>,
                fetched |-> [hist.fetched EXCEPT ![r] = {}],
                foreign |-> [hist.foreign EXCEPT ![r] = {}],
                made |-> [hist.made EXCEPT ![r] = [loader \in LoaderNames |-> {}]]]
    /\ UNCHANGED <<posts, comments, votes, bookmarks>>

\* the response is sent, and the context is garbage
respondRequest(r) ==
    /\ Resolving(r)
    /\ call' = [call EXCEPT ![r] = NoCall]
    /\ dataLoaders' = [dataLoaders EXCEPT ![Context(r)] = NoDataLoaders]
    /\ hist' = [hist EXCEPT !.loads = <<>>]
    /\ UNCHANGED <<posts, comments, votes, bookmarks>>

\* a resolver that only loads: Query.post and Comment.post (postLoader),
\* Query.comment and Comment.parent (commentLoader)
loadByString(r, loader, id) ==
    /\ Resolving(r)
    /\ LET l == Load(dataLoaders[Context(r)], loader, StringKey(id))
       IN  Note(r, <<l>>, l.loaders, {}, {})
    /\ UNCHANGED <<posts, comments, votes, bookmarks, call>>

\* Post.userVote, Comment.userVote (voteLoader) and Post.bookmarked
\* (bookmarkLoader), of the caller
loadByObject(r, loader, id, votableType) ==
    /\ Resolving(r)
    /\ LET loaders == dataLoaders[Context(r)]
           l == Load(loaders, loader, ObjectKey(loaders, call[r].user, id, votableType))
       IN  /\ Cardinality(loaders.voteLoader) + Cardinality(loaders.bookmarkLoader)
                 < MaxLoads
           /\ Note(r, <<l>>, l.loaders, {}, {})
    /\ UNCHANGED <<posts, comments, votes, bookmarks, call>>

(* the mutations of a request, each from its first load to its last clear; how
   their awaits interleave is the matter of the specifications above *)

\* a request may make one more object for a key
MayLoadByObject(r) ==
    Cardinality(dataLoaders[Context(r)].voteLoader)
        + Cardinality(dataLoaders[Context(r)].bookmarkLoader) < MaxLoads

\* vote: the target through its loader, the vote through voteLoader, the
\* write, and voteLoader.clear({...}) of a new object
voteInRequest(r, targetId, targetType, voteType) ==
    /\ Resolving(r) /\ MayLoadByObject(r)
    /\ LET dbTargetType == ToLowerCase(targetType)
           target == Load(dataLoaders[Context(r)],
                          IF targetType = "POST" THEN "postLoader" ELSE "commentLoader",
                          StringKey(targetId))
           key == ObjectKey(target.loaders, call[r].user, targetId, dbTargetType)
           existingVote == Load(target.loaders, "voteLoader", key)
           w == IF existingVote.value # {}
                THEN VoteUpdate(votes, VoteKey(call[r].user, targetId, dbTargetType),
                                voteType)
                ELSE VoteCreate(votes, [userId |-> call[r].user, votableId |-> targetId,
                                        votableType |-> dbTargetType,
                                        voteType |-> voteType])
           cleared == ObjectKey(existingVote.loaders, call[r].user, targetId, dbTargetType)
       IN  IF target.value = {}
           THEN /\ Note(r, <<target>>, target.loaders, {}, {})
                /\ UNCHANGED votes
           ELSE IF w.error # Null
           THEN /\ Note(r, <<target, existingVote>>, existingVote.loaders, {}, {})
                /\ UNCHANGED votes
           ELSE /\ votes' = w.table
                /\ Note(r, <<target, existingVote>>,
                        Clear(existingVote.loaders, "voteLoader", cleared),
                        {Name("voteLoader", cleared)}, {Name("voteLoader", cleared)})
    /\ UNCHANGED <<posts, comments, bookmarks, call>>

\* removeVote: the vote through voteLoader, the delete, voteLoader.clear({...}),
\* and for a comment its row through commentLoader
removeVoteInRequest(r, targetId, targetType) ==
    /\ Resolving(r) /\ MayLoadByObject(r)
    /\ LET dbTargetType == ToLowerCase(targetType)
           loaders == dataLoaders[Context(r)]
           key == ObjectKey(loaders, call[r].user, targetId, dbTargetType)
           existingVote == Load(loaders, "voteLoader", key)
           w == VoteDelete(votes, VoteKey(call[r].user, targetId, dbTargetType))
           cleared == ObjectKey(existingVote.loaders, call[r].user, targetId, dbTargetType)
           after == Clear(existingVote.loaders, "voteLoader", cleared)
           comment == Load(after, "commentLoader", StringKey(targetId))
       IN  IF existingVote.value = {} \/ w.error # Null
           THEN /\ Note(r, <<existingVote>>, existingVote.loaders, {}, {})
                /\ UNCHANGED votes
           ELSE /\ votes' = w.table
                /\ IF targetType = "COMMENT"
                   THEN Note(r, <<existingVote, comment>>, comment.loaders,
                             {Name("voteLoader", cleared)}, {Name("voteLoader", cleared)})
                   ELSE Note(r, <<existingVote>>, after,
                             {Name("voteLoader", cleared)}, {Name("voteLoader", cleared)})
    /\ UNCHANGED <<posts, comments, bookmarks, call>>

\* bookmarkPost: the post through postLoader, the bookmark through
\* bookmarkLoader, the create and bookmarkLoader.clear({...})
bookmarkPostInRequest(r, postId) ==
    /\ Resolving(r) /\ MayLoadByObject(r)
    /\ LET post == Load(dataLoaders[Context(r)], "postLoader", StringKey(postId))
           key == ObjectKey(post.loaders, call[r].user, postId, Null)
           existingBookmark == Load(post.loaders, "bookmarkLoader", key)
           w == BookmarkCreate(bookmarks, [userId |-> call[r].user, postId |-> postId])
           cleared == ObjectKey(existingBookmark.loaders, call[r].user, postId, Null)
       IN  IF post.value = {}
           THEN /\ Note(r, <<post>>, post.loaders, {}, {})
                /\ UNCHANGED bookmarks
           ELSE IF existingBookmark.value # {} \/ w.error # Null
           THEN /\ Note(r, <<post, existingBookmark>>, existingBookmark.loaders, {}, {})
                /\ UNCHANGED bookmarks
           ELSE /\ bookmarks' = w.table
                /\ Note(r, <<post, existingBookmark>>,
                        Clear(existingBookmark.loaders, "bookmarkLoader", cleared),
                        {Name("bookmarkLoader", cleared)},
                        {Name("bookmarkLoader", cleared)})
    /\ UNCHANGED <<posts, comments, votes, call>>

\* unbookmarkPost: the bookmark through bookmarkLoader, the delete and
\* bookmarkLoader.clear({...})
unbookmarkPostInRequest(r, postId) ==
    /\ Resolving(r) /\ MayLoadByObject(r)
    /\ LET loaders == dataLoaders[Context(r)]
           key == ObjectKey(loaders, call[r].user, postId, Null)
           existingBookmark == Load(loaders, "bookmarkLoader", key)
           w == BookmarkDelete(bookmarks, [userId |-> call[r].user, postId |-> postId])
           cleared == ObjectKey(existingBookmark.loaders, call[r].user, postId, Null)
       IN  IF existingBookmark.value = {} \/ w.error # Null
           THEN /\ Note(r, <<existingBookmark>>, existingBookmark.loaders, {}, {})
                /\ UNCHANGED bookmarks
           ELSE /\ bookmarks' = w.table
                /\ Note(r, <<existingBookmark>>,
                        Clear(existingBookmark.loaders, "bookmarkLoader", cleared),
                        {Name("bookmarkLoader", cleared)},
                        {Name("bookmarkLoader", cleared)})
    /\ UNCHANGED <<posts, comments, votes, call>>

\* editComment: the comment through commentLoader, the update and
\* commentLoader.clear(id)
editCommentInRequest(r, id, content) ==
    /\ Resolving(r)
    /\ LET existingComment == Load(dataLoaders[Context(r)], "commentLoader", StringKey(id))
       IN  IF existingComment.value = {}
           THEN /\ Note(r, <<existingComment>>, existingComment.loaders, {}, {})
                /\ UNCHANGED comments
           ELSE /\ comments' = {IF x.id = id THEN [x EXCEPT !.content = content] ELSE x :
                                   x \in comments}
                /\ Note(r, <<existingComment>>,
                        Clear(existingComment.loaders, "commentLoader", StringKey(id)),
                        {Name("commentLoader", StringKey(id))},
                        {Name("commentLoader", StringKey(id))})
    /\ UNCHANGED <<posts, votes, bookmarks, call>>

\* deleteComment: the comment through commentLoader, the soft delete and
\* commentLoader.clear(id)
deleteCommentInRequest(r, id) ==
    /\ Resolving(r)
    /\ LET existingComment == Load(dataLoaders[Context(r)], "commentLoader", StringKey(id))
       IN  IF existingComment.value = {}
           THEN /\ Note(r, <<existingComment>>, existingComment.loaders, {}, {})
                /\ UNCHANGED comments
           ELSE /\ comments' = {IF x.id = id THEN [x EXCEPT !.deleted = TRUE] ELSE x :
                                   x \in comments}
                /\ Note(r, <<existingComment>>,
                        Clear(existingComment.loaders, "commentLoader", StringKey(id)),
                        {Name("commentLoader", StringKey(id))},
                        {Name("commentLoader", StringKey(id))})
    /\ UNCHANGED <<posts, votes, bookmarks, call>>

\* updatePost: the post by prisma.post.findUnique and the update; no loader
\* is cleared
updatePostInRequest(r, id, title) ==
    /\ Resolving(r)
    /\ PostFindUnique(id) # {}
    /\ posts' = {IF p.id = id THEN [p EXCEPT !.title = title] ELSE p : p \in posts}
    /\ Note(r, <<>>, dataLoaders[Context(r)], {}, {Name("postLoader", StringKey(id))})
    /\ UNCHANGED <<comments, votes, bookmarks, call>>

\* deletePost: the post by prisma.post.findUnique and the soft delete; no
\* loader is cleared
deletePostInRequest(r, id) ==
    /\ Resolving(r)
    /\ PostFindUnique(id) # {}
    /\ posts' = {IF p.id = id THEN [p EXCEPT !.deleted = TRUE] ELSE p : p \in posts}
    /\ Note(r, <<>>, dataLoaders[Context(r)], {}, {Name("postLoader", StringKey(id))})
    /\ UNCHANGED <<comments, votes, bookmarks, call>>

\* post 1 and its comment 2, both of U1, who is the caller of every request
InitLoaders ==
    /\ posts = {[id |-> 1, authorId |-> "U1", createdAt |-> 1, views |-> 0,
                 deleted |-> FALSE, title |-> "old"]}
    /\ comments = {[id |-> 2, postId |-> 1, parentId |-> NoParent, authorId |-> "U1",
                    depth |-> 0, createdAt |-> 2, deleted |-> FALSE, content |-> "old"]}
    /\ votes = [row \in VoteRows |-> 0]
    /\ bookmarks = [row \in BookmarkRows |-> 0]
    /\ call = [r \in Reqs |-> NoCall]
    /\ query = NoQuery
    /\ hist = NoLoads
    /\ InitUsers /\ InitServer /\ InitExtra

\* one request after the other, each resolving fields one after the other
NextLoaders ==
    /\ \E r \in {"R1"} :
          \/ createContext(r)
          \/ respondRequest(r)
          \/ loadByString(r, "postLoader", 1)
          \/ loadByString(r, "commentLoader", 2)
          \/ loadByObject(r, "voteLoader", 2, "comment")
          \/ loadByObject(r, "bookmarkLoader", 1, Null)
          \/ voteInRequest(r, 2, "COMMENT", "UPVOTE")
          \/ removeVoteInRequest(r, 2, "COMMENT")
          \/ bookmarkPostInRequest(r, 1)
          \/ unbookmarkPostInRequest(r, 1)
          \/ editCommentInRequest(r, 2, "new")
          \/ deleteCommentInRequest(r, 2)
          \/ updatePostInRequest(r, 1, "new")
          \/ deletePostInRequest(r, 1)
    /\ UNCHANGED <<query, users, server, topics, userTopics, typingPosts, path,
                 triggers>>

SpecLoaders == InitLoaders /\ [][NextLoaders]_vars

\* two requests at a time, which load the post and the caller's bookmark of
\* it while the post changes and the bookmark is made
NextContexts ==
    /\ \E r \in Reqs :
          \/ createContext(r)
          \/ respondRequest(r)
          \/ loadByString(r, "postLoader", 1)
          \/ loadByObject(r, "bookmarkLoader", 1, Null)
          \/ bookmarkPostInRequest(r, 1)
          \/ updatePostInRequest(r, 1, "new")
          \/ deletePostInRequest(r, 1)
    /\ UNCHANGED <<comments, query, users, server, topics, userTopics, typingPosts, path,
                 triggers>>

SpecContexts == InitLoaders /\ [][NextContexts]_vars

(* The comment listings of a post some of whose comments are soft-deleted *)

\* the comments a deleteComment has soft-deleted: none, a top-level one, a
\* reply, or both
SoftDeleted == SUBSET {2, 3}

InitCommentOrder ==
    /\ posts = SmallPosts(1, [i \in {1} |-> 1])
    /\ \E n \in 0..MaxSmallFeed : \E createdAt \in [1..n -> 1..MaxTime] :
          \E deleted \in SoftDeleted :
             comments = {[comment EXCEPT !.deleted = comment.id \in deleted] :
                            comment \in SmallComments(n, createdAt)}
    /\ votes = [row \in VoteRows |-> 0]
    /\ bookmarks = [row \in BookmarkRows |-> 0]
    /\ call = [r \in Reqs |-> NoCall]
    /\ query = NoQuery
    /\ hist = NoLast
    /\ InitUsers /\ InitServer /\ InitExtra

\* one page of a listing and then the page after it
NextCommentOrder ==
    /\ \E first \in CommentFirsts, after \in {NoCursor, query.last.endCursor},
          tie \in TieOrders :
          \/ \E orderBy \in CommentOrderBys :
                /\ SameFeed("comments", 1, orderBy)
                /\ commentsQuery(1, first, after, orderBy, tie)
          \/ \E orderBy \in CommentOrderBys :
                /\ SameFeed("Post.comments", 1, orderBy)
                /\ postComments(1, first, after, orderBy, tie)
          \/ /\ SameFeed("Comment.replies", 1, "OLDEST")
             /\ replies(1, first, after, tie)
    /\ UNCHANGED <<hist, users, server, extra>>

SpecCommentOrder == InitCommentOrder /\ [][NextCommentOrder]_vars

(* deleteComment on a thread with votes, and the listing of the post after it *)

\* the thread of InitComment, some of the votes on its second comment being
\* there
InitSoftDelete ==
    /\ posts = {[id |-> 1, authorId |-> "U1", createdAt |-> 1, views |-> 0, deleted |-> FALSE]}
    /\ comments = {[id |-> n, postId |-> 1,
                     parentId |-> IF n = 1 THEN NoParent ELSE n - 1,
                     authorId |-> IF n % 2 = 1 THEN "U1" ELSE "U2",
                     depth |-> n - 1, createdAt |-> n, deleted |-> FALSE] : n \in 1..5}
    /\ \E cast \in SUBSET {row \in VoteRows : /\ row.votableType = "comment"
                                              /\ row.votableId = 2
                                              /\ row.voteType = "UPVOTE"} :
          votes = [row \in VoteRows |-> IF row \in cast THEN 1 ELSE 0]
    /\ bookmarks = [row \in BookmarkRows |-> 0]
    /\ call = [r \in Reqs |-> NoCall]
    /\ query = NoQuery
    /\ hist = NoLast
    /\ InitUsers /\ InitServer /\ InitExtra

\* deleteComment by any user on the second and the third comment of the
\* thread, calls overlapping, and the client's listings of the post
NextSoftDelete ==
    /\ \/ \E r \in Reqs :
             \/ \E user \in Users, id \in {2, 3} : deleteComment(r, user, id)
             \/ deleteCommentUpdate(r)
             \/ respond(r)
       \/ \E orderBy \in CommentOrderBys, tie \in TieOrders :
             /\ SameFeed("comments", 1, orderBy)
             /\ commentsQuery(1, Absent, NoCursor, orderBy, tie)
    /\ UNCHANGED <<hist, users, server, extra>>

SpecSoftDelete == InitSoftDelete /\ [][NextSoftDelete]_vars

(* The sweep of the typing map, on its period *)

\* setInterval(cleanupTypingUsers, 2000)
period == 2000

\* the time at which the clock of the sweep specification stops
MaxSweepNow == 8000

\* the milliseconds that pass between two steps: at most the period
SweepTicks == {period \div 2, period}

\* time passes
elapse(ms) ==
    /\ now + ms <= MaxSweepNow
    /\ now' = now + ms
    /\ UNCHANGED <<posts, comments, votes, bookmarks, call, query, users, extra,
                   typingUsers, activeUsers, subscriptions, subIdCounter,
                   connections, iterators>>

NoSweep == [removed |-> {}, kept |-> {}, at |-> 0]

InitSweep ==
    /\ posts = {[id |-> i, authorId |-> "U1", createdAt |-> i, views |-> 0,
                 deleted |-> FALSE] : i \in {1, 2}}
    /\ comments = {}
    /\ votes = [row \in VoteRows |-> 0]
    /\ bookmarks = [row \in BookmarkRows |-> 0]
    /\ call = [r \in Reqs |-> NoCall]
    /\ query = NoQuery
    /\ hist = NoSweep
    /\ InitUsers /\ InitServer /\ InitExtra

pass == \E ms \in SweepTicks : elapse(ms) /\ UNCHANGED hist

\* a run of the callback; hist: the entries it deleted and those it left
sweep ==
    /\ cleanupTypingUsers
    /\ hist' = [removed |-> typingUsers \ typingUsers', kept |-> typingUsers',
                at |-> now]

\* the clients start typing while the clock has the threshold and a period
\* left to run
NextSweep ==
    \/ pass
    \/ \E user \in Users \cup {NoUser}, postId \in PostIds :
          /\ now + timeout + period <= MaxSweepNow
          /\ startTyping(user, postId)
          /\ UNCHANGED hist
    \/ \E user \in Users \cup {NoUser}, postId \in PostIds :
          /\ stopTyping(user, postId)
          /\ UNCHANGED hist
    \/ sweep

\* time passes, and the timer of setInterval fires again and again
SpecSweep == InitSweep /\ [][NextSweep]_vars /\ WF_vars(pass) /\ WF_vars(sweep)

-----------------------------------------------------------------------------
(* The column path of comments: the trigger update_comment_path of demo.sql,
   and the scripts that install it and drop it *)

\* the most comments of the path specification
MaxPaths == 4

\* a text is a sequence of labels and dots; Dot is the character '.'
Dot == 0

\* 'root'
Root == -1

\* 'c' || replace(NEW.id::text, '-', ''): the id as a label
comment_id_text(id) == <<id>>

\* text::ltree: labels with one dot between two of them; any other text is a
\* syntax error
LTree(text) ==
    IF /\ \A i \in DOMAIN text : (text[i] = Dot) <=> (i % 2 = 0)
       /\ text = <<>> \/ Len(text) % 2 = 1
    THEN [error |-> FALSE,
          value |-> [null |-> FALSE, labels |-> SelectSeq(text, LAMBDA x : x # Dot)]]
    ELSE [error |-> TRUE, value |-> NULL]

\* ltree || ltree
Concat(a, b) == [null |-> FALSE, labels |-> a.labels \o b.labels]

\* the trigger function on the row NEW of an INSERT: the path it gives the
\* row, or the error it raises
update_comment_path(new) ==
    IF new.parentId = NoParent
    THEN [error |-> LTree(comment_id_text(new.id)).error,
          path |-> LTree(comment_id_text(new.id)).value]
    ELSE LET selected == path[new.parentId]
             parent_path == IF selected.null THEN LTree(<<Root>>).value ELSE selected
             segment == LTree(<<Dot>> \o comment_id_text(new.id))
         IN  [error |-> segment.error, path |-> Concat(parent_path, segment.value)]

\* demo.sql: DROP TRIGGER IF EXISTS, CREATE FUNCTION, CREATE TRIGGER
demo ==
    /\ triggers' = {"update_comment_path_trigger"}
    /\ UNCHANGED <<posts, comments, votes, bookmarks, call, query, path>>

\* temporarily-disable-ltree-trigger.sql: DROP TRIGGER IF EXISTS
temporarilyDisable ==
    /\ triggers' = {}
    /\ UNCHANGED <<posts, comments, votes, bookmarks, call, query, path>>

\* await prisma.comment.create(...) on the table as it is: without the
\* trigger the row's path is NULL; with it the INSERT has the path of the
\* trigger, or fails with its error and createComment rethrows it
createCommentInsert(r) ==
    LET new == [id |-> Cardinality(comments) + 1, parentId |-> call[r].parentId]
        before == update_comment_path(new)
    IN  /\ IF "update_comment_path_trigger" \notin triggers
           THEN /\ createCommentCreate(r)
                /\ UNCHANGED path
           ELSE IF before.error
           THEN /\ Quiet
                /\ call[r].op = "createComment" /\ call[r].pc = "create"
                /\ call' = [call EXCEPT ![r] =
                               [call[r] EXCEPT !.pc = "done",
                                               !.result = Failure("SYNTAX_ERROR")]]
                /\ UNCHANGED <<posts, comments, votes, bookmarks, query, path>>
           ELSE /\ createCommentCreate(r)
                /\ path' = [path EXCEPT ![new.id] = before.path]
        /\ UNCHANGED triggers

\* schema.sql, which setup-database.ts runs: a post, no comment, no trigger
InitPath ==
    /\ posts = {[id |-> 1, authorId |-> "U1", createdAt |-> 1, views |-> 0, deleted |-> FALSE]}
    /\ comments = {}
    /\ votes = [row \in VoteRows |-> 0]
    /\ bookmarks = [row \in BookmarkRows |-> 0]
    /\ call = [r \in Reqs |-> NoCall]
    /\ query = NoQuery
    /\ hist = NoLast
    /\ InitUsers /\ InitServer /\ InitExtra

NextPath ==
    /\ \/ /\ \/ createComment("R1", "U1", 1, NoParent, [length |-> 5, trimmed |-> 4])
             \/ \E parentId \in 1..MaxPaths :
                   createComment("R1", "U1", 1, parentId, [length |-> 5, trimmed |-> 4])
             \/ createCommentLoadParent("R1")
             \/ respond("R1")
          /\ UNCHANGED <<path, triggers>>
       \/ /\ Cardinality(comments) < MaxPaths
          /\ createCommentInsert("R1")
       \/ demo
       \/ temporarilyDisable
    /\ UNCHANGED <<hist, users, server, topics, userTopics, dataLoaders, typingPosts>>

SpecPath == InitPath /\ [][NextPath]_vars

-----------------------------------------------------------------------------
(* postResolvers.Mutation.createPost, and the mutations that publish, with the
   writes each call has completed *)

\* the most posts of the publishing specification
MaxPosts == 3

\* the titles a client sends to createPost: also the empty one
NewTitles == Titles \cup {""}

\* the contents a client sends to createPost: blank, and not
NewContents == {[length |-> 1, trimmed |-> 0], [length |-> 5, trimmed |-> 4]}

\* the topicIds a client sends to createPost
NewTopicIds == {{}, {1}, {3}}

\* publishPostCreated(post): pubsub.publish(POST_CREATED, { postCreated: post })
publishPostCreated(events, post) ==
    Append(events, [channel |-> "POST_CREATED", postCreated |-> post])

\* prisma.post.create({ data: { ..., post_topics: { create: [...] } } }): the
\* post and its post_topics rows in one transaction; a topicId that is no row
\* of topics is refused (topic_id REFERENCES topics(id), Prisma's P2003)
PostCreate(table, row, topicIds) ==
    IF topicIds \subseteq DOMAIN topics
    THEN [error |-> Null, table |-> table \cup {row}]
    ELSE [error |-> "P2003", table |-> table]

MutWriteNeverThrows(w) == FALSE

\* await prisma.post.create(...) throws and the catch block rethrows
Throws(w) == w.error # Null

\* createPost(input), up to its write
createPost(r, user, title, content, topicIds) ==
    /\ Quiet /\ Idle(r)
    /\ LET c == [NoCall EXCEPT !.op = "createPost", !.user = user, !.voteType = title,
                               !.topicIds = topicIds]
       IN  Begin(r, IF user = NoUser
                    THEN [c EXCEPT !.pc = "done", !.result = Failure("AUTHENTICATION_ERROR")]
                    ELSE IF title = ""
                    THEN [c EXCEPT !.pc = "done", !.result = Failure("VALIDATION_ERROR")]
                    ELSE IF content.trimmed = 0
                    THEN [c EXCEPT !.pc = "done", !.result = Failure("VALIDATION_ERROR")]
                    ELSE IF TitleLength(title) > MaxTitleLength
                    THEN [c EXCEPT !.pc = "done", !.result = Failure("VALIDATION_ERROR")]
                    ELSE [c EXCEPT !.pc = "create"])
    /\ UNCHANGED <<posts, comments, votes, bookmarks, query>>

\* const post = await prisma.post.create(...); publishPostCreated(...); return
createPostCreate(r) ==
    /\ Quiet
    /\ call[r].op = "createPost" /\ call[r].pc = "create"
    /\ LET c == call[r]
           post == [id |-> Cardinality(posts) + 1, authorId |-> c.user,
                    createdAt |-> Cardinality(posts) + 1, views |-> 0,
                    deleted |-> FALSE, title |-> c.voteType]
           w == PostCreate(posts, post, c.topicIds)
       IN  /\ posts' = w.table
           /\ call' = [call EXCEPT ![r] =
                IF Throws(w)
                THEN [c EXCEPT !.pc = "done", !.result = Failure(w.error)]
                ELSE [c EXCEPT !.pc = "done",
                               !.events = publishPostCreated(c.events, post),
                               !.result = [NoResult EXCEPT !.kind = "ok"]]]
    /\ UNCHANGED <<comments, votes, bookmarks, query>>

\* the step of the call in slot r is its write, and the store has taken it
Wrote(r) ==
    LET c == call[r]
        key == TargetKey(c)
    IN  /\ call'[r] # c
        /\ \/ /\ c.op = "vote" /\ c.pc = "write"
              /\ \E row \in RowsWithKey(votes', key) : row.voteType = c.voteType
              /\ IF c.existingVote # Null THEN RowsWithKey(votes, key) # {}
                 ELSE votes' # votes
           \/ /\ c.op = "removeVote" /\ c.pc = "delete"
              /\ votes' # votes /\ RowsWithKey(votes', key) = {}
           \/ /\ c.op = "createComment" /\ c.pc = "create"
              /\ \E x \in comments' \ comments : x.authorId = c.user
           \/ /\ c.op = "deleteComment" /\ c.pc = "softDelete"
              /\ \E x \in comments' : x.id = c.targetId /\ x.deleted
           \/ /\ c.op = "createPost" /\ c.pc = "create"
              /\ \E p \in posts' \ posts : p.authorId = c.user
           \/ /\ c.op = "updatePost" /\ c.pc = "update"
              /\ \E p \in posts' : p.id = c.targetId /\ p.title = c.voteType

\* the calls in the slots whose write the store has taken
NoteWritten ==
    hist' = [written |-> {r \in Reqs : /\ ~Idle(r) /\ call'[r].pc # "idle"
                                       /\ r \in hist.written \/ Wrote(r)}]

\* post 1 of U1 with the comment 1 of U1 and the comment 2 of U2 on it
InitPublish ==
    /\ posts = {[id |-> 1, authorId |-> "U1", createdAt |-> 1, views |-> 0,
                 deleted |-> FALSE, title |-> "old"]}
    /\ comments = {[id |-> n, postId |-> 1, parentId |-> NoParent,
                    authorId |-> IF n = 2 THEN "U2" ELSE "U1",
                    depth |-> 0, createdAt |-> n, deleted |-> FALSE] : n \in 1..2}
    /\ votes = [row \in VoteRows |-> 0]
    /\ bookmarks = [row \in BookmarkRows |-> 0]
    /\ call = [r \in Reqs |-> NoCall]
    /\ query = NoQuery
    /\ hist = [written |-> {}]
    /\ InitUsers /\ InitServer /\ InitExtra

\* the mutations that publish, overlapping, with the inputs each refuses
NextPublish ==
    /\ \E r \in Reqs :
          \/ \E user \in {"U1", NoUser}, targetId \in {1, 9}, voteType \in VoteTypes :
                vote(r, user, targetId, "POST", voteType)
          \/ \E user \in {"U1", NoUser} : removeVote(r, user, 1, "POST")
          \/ voteSteps(r)
          \/ \E user \in {"U1", NoUser}, postId \in {1, 9}, content \in NewContents :
                createComment(r, user, postId, NoParent, content)
          \/ /\ Cardinality(comments) < MaxPaths
             /\ createCommentCreate(r)
          \/ \E user \in {"U1", NoUser}, id \in {1, 2, 9} : deleteComment(r, user, id)
          \/ deleteCommentUpdate(r)
          \/ \E user \in {"U1", NoUser}, title \in NewTitles, content \in NewContents,
                topicIds \in NewTopicIds :
                createPost(r, user, title, content, topicIds)
          \/ /\ Cardinality(posts) < MaxPosts
             /\ createPostCreate(r)
          \/ \E user \in {"U1", "U2", NoUser}, id \in {1, 9}, title \in Titles :
                updatePost(r, user, id, title)
          \/ updatePostUpdate(r)
          \/ updatePostFindVotes(r)
          \/ updatePostFindBookmarks(r)
    /\ NoteWritten
    /\ UNCHANGED <<users, server, extra>>

SpecPublish == InitPublish /\ [][NextPublish]_vars

-----------------------------------------------------------------------------
(* One subscription operation: its iterator, the calls of next() of its
   consumer, and the events published on its trigger *)

\* the most events published while the operation is followed
MaxEvents == 3

\* publishCommentAdded({...comment, postId}): the comments 5 and 6, added to
\* post 1 or to post 2
AddedPayloads ==
    {[NoPayload EXCEPT !.triggerName = "COMMENT_ADDED", !.postId = postId, !.id = id] :
        postId \in PostIds, id \in {5, 6}}

\* the events the consumer is owed, the calls of next() that have not
\* settled, and the results of the calls of next() on the finished iterator
NoConsumer == [n |-> 0, published |-> <<>>, pending |-> 0, done |-> <<>>]

InitIterate ==
    /\ posts = {[id |-> i, authorId |-> "U1", createdAt |-> i, views |-> 0,
                 deleted |-> FALSE] : i \in {1, 2}}
    /\ comments = {}
    /\ votes = [row \in VoteRows |-> 0]
    /\ bookmarks = [row \in BookmarkRows |-> 0]
    /\ call = [r \in Reqs |-> NoCall]
    /\ query = NoQuery
    /\ hist = NoConsumer
    /\ InitUsers /\ InitServer /\ InitExtra

\* subscription { commentAdded(postId: 1) }
iterate(i) ==
    /\ subscribe(i, "commentAdded", 1, 0, "U1")
    /\ UNCHANGED hist

\* the consumer calls next() and waits for the promise
consume(i) ==
    /\ next(i)
    /\ hist' = [hist EXCEPT !.pending = @ + 1]

\* if (this.isComplete) return { done: true, value: undefined }
nextComplete(i) ==
    /\ iterators[i].isComplete
    /\ Len(hist.done) < MaxEvents
    /\ hist' = [hist EXCEPT !.done = Append(@, TRUE)]
    /\ UNCHANGED <<posts, comments, votes, bookmarks, call, query, users, server, extra>>

\* return() and throw(error): isComplete = true; listeners = []: the promise of
\* a call of next() that waits is not resolved
finish(i) ==
    /\ return(i) \/ throw(i)
    /\ UNCHANGED hist

\* a resolver publishes payload while the operation is open or after it
announce(payload) ==
    /\ hist.n < MaxEvents
    /\ publish(payload)
    /\ hist' = [hist EXCEPT
                  !.n = @ + 1,
                  !.published =
                      IF \E i \in IterIds : /\ iterators[i].state = "live"
                                            /\ Filter(iterators[i], payload)
                      THEN Append(@, payload) ELSE @,
                  !.pending =
                      IF \E i \in IterIds : iterators'[i].delivered # iterators[i].delivered
                      THEN @ - 1 ELSE @]
    /\ UNCHANGED <<posts, comments, votes, bookmarks, call, query, users, extra,
                   typingUsers, now, activeUsers>>

NextIterate ==
    \/ \E i \in IterIds : iterate(i)
    \/ \E i \in IterIds : consume(i)
    \/ \E i \in IterIds : nextComplete(i)
    \/ \E i \in IterIds : finish(i)
    \/ \E payload \in AddedPayloads : announce(payload)

\* the consumer and the resolvers run: no step that can be taken waits forever
SpecIterate == InitIterate /\ [][NextIterate]_vars /\ WF_vars(NextIterate)

-----------------------------------------------------------------------------
(* One connection of the event stream from its request to the handler of
   'close', and the events published before and after *)

\* the events of the stream's triggers about post 1 and its comment 3, and one
\* about post 2
StreamPayloads ==
    {[NoPayload EXCEPT !.triggerName = "VOTE_UPDATED", !.targetId = 1,
                       !.targetType = ToLowerCase("POST")],
     [NoPayload EXCEPT !.triggerName = "VOTE_UPDATED", !.targetId = 3,
                       !.targetType = ToLowerCase("COMMENT"), !.commentPostId = 1],
     [NoPayload EXCEPT !.triggerName = "COMMENT_ADDED", !.id = 5, !.postId = 1],
     [NoPayload EXCEPT !.triggerName = "COMMENT_DELETED", !.id = 3, !.postId = 1],
     [NoPayload EXCEPT !.triggerName = "COMMENT_ADDED", !.id = 6, !.postId = 2]}

\* no event yet: the number published, the last one, and the connections
\* whose 'close' had been handled when it was published
NoStream == [n |-> 0, event |-> NoPayload, closed |-> {}]

InitClose ==
    /\ posts = {[id |-> i, authorId |-> "U1", createdAt |-> i, views |-> 0,
                 deleted |-> FALSE] : i \in {1, 2}}
    /\ comments = {[id |-> i + 2, postId |-> i, parentId |-> NoParent, authorId |-> "U2",
                    depth |-> 0, createdAt |-> i, deleted |-> FALSE] : i \in {1, 2}}
    /\ votes = [row \in VoteRows |-> 0]
    /\ bookmarks = [row \in BookmarkRows |-> 0]
    /\ call = [r \in Reqs |-> NoCall]
    /\ query = NoQuery
    /\ hist = NoStream
    /\ InitUsers /\ InitServer /\ InitExtra

\* a resolver publishes payload
stream(payload) ==
    /\ hist.n < MaxEvents
    /\ publish(payload)
    /\ hist' = [n |-> hist.n + 1, event |-> payload,
                closed |-> {c \in ConnIds : connections[c].state = "closed"}]
    /\ UNCHANGED <<posts, comments, votes, bookmarks, call, query, users, extra,
                   typingUsers, now, activeUsers>>

NextClose ==
    \/ \E payload \in StreamPayloads : stream(payload)
    \/ /\ \E c \in ConnIds :
             \/ connect(c, 1)
             \/ connectSubscribe(c)
             \/ disconnect(c)
             \/ heartbeat(c)
             \/ close(c)
       /\ UNCHANGED hist

SpecClose == InitClose /\ [][NextClose]_vars

-----------------------------------------------------------------------------
(* Properties of voting *)

\* the rows of a table with this key, counted with their multiplicity
CountKey(table, key) ==
    table[[userId |-> key.userId, votableId |-> key.votableId,
           votableType |-> key.votableType, voteType |-> "UPVOTE"]]
    + table[[userId |-> key.userId, votableId |-> key.votableId,
             votableType |-> key.votableType, voteType |-> "DOWNVOTE"]]

VoteKeys == [userId : Users, votableId : TargetIds, votableType : DbTargetTypes]

\* C1: in every reachable state, under any interleaving of vote and removeVote
\* calls, the votes table holds at most one row for each (user, target id,
\* target kind).
C1_AtMostOneVoteRow == \A key \in VoteKeys : CountKey(votes, key) <= 1

\* two vote calls of one user on one target overlapped: both found no vote, one
\* inserted, the other's insert was refused
C1_Witness ==
    \E r \in Reqs :
        /\ call[r].op = "vote" /\ call[r].pc = "done"
        /\ call[r].result.kind = "P2002"
        /\ CountKey(votes, TargetKey(call[r])) = 1

\* C2: when vote/removeVote calls do not overlap, the voteCount a successful
\* vote returns, and the voteCount of the event a successful vote or removeVote
\* publishes, is the number of UPVOTE rows minus the number of DOWNVOTE rows of
\* the target in the table right after the call's write.
C2_VoteCountIsNet ==
    \A r \in Reqs :
        (call[r].pc = "done" /\ call[r].result.kind = "ok") =>
            LET c == call[r]
                net == Net(hist.afterWrite, c.targetId, ToLowerCase(c.targetType))
            IN  /\ Len(c.events) = 1
                /\ c.events[1].voteUpdated.voteCount = net
                /\ c.op = "vote" => c.result.voteCount = net

\* U1 and U2 had voted down, U1 removed the vote: the event counts -1
C2_Witness ==
    \E r \in Reqs :
        /\ call[r].op = "removeVote" /\ call[r].pc = "done"
        /\ call[r].result.kind = "ok"
        /\ call[r].events[1].voteUpdated.voteCount = -1

\* C3: a vote in the direction of the caller's existing vote on the target
\* leaves the votes table as it was before the call (the rows, and so the
\* target's voteCount), and returns that voteCount and that direction: what the
\* first vote returned.
C3_RepeatVoteNoChange ==
    \A r \in Reqs :
        LET c == call[r] IN
        (c.op = "vote" /\ c.user # NoUser
            /\ VoteLoad(hist.before, TargetKey(c)) = c.voteType) =>
                /\ votes = hist.before
                /\ c.pc = "done" =>
                    /\ c.result.kind = "ok"
                    /\ c.result.userVote = VoteLoad(hist.before, TargetKey(c))
                    /\ c.result.voteCount =
                           Net(hist.before, c.targetId, ToLowerCase(c.targetType))

\* a second UPVOTE of a user on a target that another user has upvoted too
C3_Witness ==
    \E r \in Reqs :
        /\ call[r].op = "vote" /\ call[r].pc = "done"
        /\ VoteLoad(hist.before, TargetKey(call[r])) = call[r].voteType
        /\ call[r].result.voteCount = 2

\* C4: removeVote by an authenticated user who has no vote row for the target
\* fails with NotFound at its lookup, changes no vote row and publishes no event.
C4_RemoveAbsentVoteNotFound ==
    [][\A r \in Reqs :
        (/\ Idle(r) /\ call'[r].op = "removeVote" /\ call'[r].user # NoUser
         /\ CountKey(votes, TargetKey(call'[r])) = 0)
        => /\ call'[r].pc = "done"
           /\ call'[r].result.kind = "NOT_FOUND"
           /\ call'[r].events = <<>>
           /\ votes' = votes]_vars

\* a removeVote of a user without a vote on the target has ended with NotFound
\* while the other user's vote on the target is in the table
C4_Witness ==
    \E r \in Reqs :
        /\ call[r].op = "removeVote" /\ call[r].pc = "done"
        /\ call[r].user # NoUser
        /\ call[r].result.kind = "NOT_FOUND"
        /\ CountKey(votes, TargetKey(call[r])) = 0
        /\ \E key \in VoteKeys : CountKey(votes, key) = 1

\* C15: a vote without a caller fails with an Authentication error, and a vote
\* by a caller on a target id that is no stored post (for POST) or comment (for
\* COMMENT) fails with NotFound; either ends at once, with no vote row created
\* or changed and no event published.
C15_VoteRefusedWithoutCallerOrTarget ==
    [][\A r \in Reqs :
        (Idle(r) /\ call'[r].op = "vote")
        => LET c == call'[r]
               absent == IF c.targetType = "POST"
                         THEN ~\E post \in posts : post.id = c.targetId /\ ~post.deleted
                         ELSE ~\E comment \in comments :
                                  comment.id = c.targetId /\ ~comment.deleted
               refused(code) == /\ c.pc = "done"
                                /\ c.result.kind = code
                                /\ c.events = <<>>
                                /\ votes' = votes
           IN  /\ c.user = NoUser => refused("AUTHENTICATION_ERROR")
               /\ (c.user # NoUser /\ absent) => refused("NOT_FOUND")]_vars

\* a vote of a caller on the id of a comment, as a POST, has ended with
\* NotFound while there are vote rows in the table
C15_Witness ==
    \E r \in Reqs :
        /\ call[r].op = "vote" /\ call[r].pc = "done"
        /\ call[r].user # NoUser
        /\ call[r].targetType = "POST"
        /\ CommentLoad(call[r].targetId) # {}
        /\ call[r].result.kind = "NOT_FOUND"
        /\ call[r].events = <<>>
        /\ \E key \in VoteKeys : CountKey(votes, key) = 1

-----------------------------------------------------------------------------
(* Properties of bookmarks *)

\* C5: unbookmarkPost by an authenticated user who has no bookmark for the post
\* returns true and changes no bookmark row; and an unbookmarkPost that follows
\* a successful unbookmarkPost of the same user and post succeeds too and leaves
\* the table as the first one left it.
C5_UnbookmarkAbsentSucceeds ==
    /\ [][\A r \in Reqs :
            (/\ Idle(r) /\ call'[r].op = "unbookmarkPost" /\ call'[r].user # NoUser
             /\ bookmarks[BookmarkKey(call'[r])] = 0)
            => /\ call'[r].pc = "done"
               /\ call'[r].result.kind = "ok"
               /\ bookmarks' = bookmarks]_vars
    /\ [](\A r \in Reqs :
            LET c == call[r] IN
            (/\ c.op = "unbookmarkPost" /\ c.user # NoUser /\ hist.req = r
             /\ hist.prev = [op |-> "unbookmarkPost", user |-> c.user,
                              postId |-> c.targetId, kind |-> "ok"])
            => /\ c.pc = "done"
               /\ c.result.kind = "ok"
               /\ bookmarks = hist.before)

\* the user bookmarked a post, unbookmarked it, and unbookmarked it again while
\* another user's bookmark stays
C5_Witness ==
    \E r \in Reqs :
        LET c == call[r] IN
        /\ c.op = "unbookmarkPost" /\ c.pc = "done" /\ c.user # NoUser
        /\ c.result.kind = "ok"
        /\ PostLoad(c.targetId) # {} /\ hist.req = r
        /\ hist.prev = [op |-> "unbookmarkPost", user |-> c.user,
                         postId |-> c.targetId, kind |-> "ok"]
        /\ \E key \in BookmarkRows : bookmarks[key] = 1

-----------------------------------------------------------------------------
(* Properties of comments *)

\* the stored comment with this id, deleted or not
CommentRows(id) == {x \in comments : x.id = id}

\* C6: createComment under an existing parent at depth 5 of the same post fails
\* with a validation error and inserts no row; under an existing parent at
\* depth 4 it goes on to the insert, the call succeeds and the one row it
\* inserts has depth 5.
C6_DepthLimit ==
    [][\A r \in Reqs :
        LET c == call[r] IN
        /\ (/\ c.op = "createComment" /\ c.pc = "loadParent" /\ call'[r] # c)
           => \A parentComment \in CommentLoad(c.parentId) :
                 parentComment.postId = c.targetId =>
                    /\ parentComment.depth = 5 =>
                          /\ call'[r].pc = "done"
                          /\ call'[r].result.kind = "VALIDATION_ERROR"
                          /\ call'[r].events = <<>>
                          /\ comments' = comments
                    /\ parentComment.depth = 4 => call'[r].pc = "create"
        /\ (/\ c.op = "createComment" /\ c.pc = "create" /\ call'[r] # c)
           => \A parentComment \in CommentRows(c.parentId) :
                 parentComment.depth = 4 =>
                    /\ call'[r].pc = "done"
                    /\ call'[r].result.kind = "ok"
                    /\ \E comment \in comments' :
                          /\ comments' \ comments = {comment}
                          /\ comment.parentId = c.parentId
                          /\ comment.depth = 5]_vars

\* a call under a parent at depth 5, which a call under a parent at depth 4
\* created, has been refused
C6_Witness ==
    \E r \in Reqs :
        LET c == call[r] IN
        /\ c.op = "createComment" /\ c.pc = "done"
        /\ c.result.kind = "VALIDATION_ERROR"
        /\ \E parentComment \in CommentLoad(c.parentId) :
              /\ parentComment.depth = 5
              /\ parentComment.postId = c.targetId
              /\ parentComment.id > 5

\* C7: every stored comment has a depth from 0 to 5; a comment without a parent
\* has depth 0; a comment with a parent has the parent's depth plus one and the
\* parent's post.
C7_DepthInvariant ==
    \A comment \in comments :
        /\ comment.depth \in 0..5
        /\ comment.parentId = NoParent => comment.depth = 0
        /\ comment.parentId # NoParent =>
              \E parentComment \in CommentRows(comment.parentId) :
                 /\ comment.depth = parentComment.depth + 1
                 /\ comment.postId = parentComment.postId

\* the thread has grown to depth 5 by a call that has just returned
C7_Witness ==
    \E r \in Reqs, comment \in comments :
        /\ call[r].op = "createComment" /\ call[r].pc = "done"
        /\ call[r].result.kind = "ok"
        /\ comment.id > 5 /\ comment.depth = 5
        /\ comment.parentId = call[r].parentId

\* C8: createComment whose parent is a comment of another post than
\* input.postId fails with a validation error, inserts no row and publishes no
\* commentAdded event.
C8_ParentOfOtherPostRefused ==
    [][\A r \in Reqs :
        LET c == call[r] IN
        (/\ c.op = "createComment" /\ c.pc = "loadParent" /\ call'[r] # c)
        => \A parentComment \in CommentLoad(c.parentId) :
              parentComment.postId # c.targetId =>
                 /\ call'[r].pc = "done"
                 /\ call'[r].result.kind = "VALIDATION_ERROR"
                 /\ call'[r].events = <<>>
                 /\ comments' = comments]_vars

\* a call with post 2 and a parent on post 1 has been refused
C8_Witness ==
    \E r \in Reqs :
        LET c == call[r] IN
        /\ c.op = "createComment" /\ c.pc = "done"
        /\ c.result.kind = "VALIDATION_ERROR"
        /\ c.events = <<>>
        /\ \E parentComment \in CommentLoad(c.parentId) :
              parentComment.postId # c.targetId

-----------------------------------------------------------------------------
(* Properties of the feeds *)

\* the live rows of the feed a response is a page of
FeedRows(response) ==
    IF response.feed = "posts" THEN {post \in posts : ~post.deleted}
    ELSE {comment \in comments : comment.postId = response.postId /\ ~comment.deleted}

\* C9: page 1 with first = 2 and then page 2 with first = 2 and after = page 1's
\* endCursor, of the posts feed or of a post's comments feed in its default
\* order, have no row in common, and no row of the feed that sorts before the
\* first row of page 2 is missing from both, equal timestamps or not.
C9_PagesNeitherRepeatNorOmit ==
    LET page1 == query.prev
        page2 == query.last
    IN  (/\ page1.feed \in {"posts", "comments"} /\ page2.feed = page1.feed
         /\ page2.postId = page1.postId
         /\ page1.kind = "ok" /\ page2.kind = "ok"
         /\ page1.orderBy = "NEWEST" /\ page2.orderBy = "NEWEST"
         /\ page1.first = <<2>> /\ page2.first = <<2>>
         /\ page1.after = NoCursor
         /\ page1.endCursor # NoCursor /\ page2.after = page1.endCursor)
        => /\ \A i \in DOMAIN page1.edges, j \in DOMAIN page2.edges :
                 page1.edges[i] # page2.edges[j]
           /\ \A x \in FeedRows(page2), y \in FeedRows(page2) :
                 (/\ page2.edges # <<>> /\ y.id = page2.edges[1]
                  /\ x.createdAt > y.createdAt)
                 => \E i \in DOMAIN page1.edges : page1.edges[i] = x.id

\* C10: whatever first a posts query is given, its page size is from 1 to 50,
\* it returns at most that many edges and it fetched at most one row more.
C10_PageSizeClamped ==
    \A response \in {query.prev, query.last} :
        (response.feed = "posts" /\ response.kind = "ok")
        => /\ response.limit \in 1..50
           /\ Len(response.edges) <= response.limit
           /\ response.fetched <= response.limit + 1

\* first = 1000 on the long feed gave 50 edges of 51 rows fetched, and then
\* first = -1 gave one edge
C10_Witness ==
    /\ query.prev.feed = "posts" /\ query.prev.kind = "ok"
    /\ query.prev.first = <<1000>>
    /\ query.prev.limit = 50 /\ Len(query.prev.edges) = 50 /\ query.prev.fetched = 51
    /\ query.last.feed = "posts" /\ query.last.kind = "ok"
    /\ query.last.first = <<-1>>
    /\ query.last.limit = 1 /\ Len(query.last.edges) = 1 /\ query.last.fetched = 2

-----------------------------------------------------------------------------
(* Properties of the comment feeds *)

\* the live rows of the comment feed a response is a page of
CommentFeedRows(response) ==
    IF response.feed = "Comment.replies"
    THEN {comment \in comments : comment.parentId = response.postId /\ ~comment.deleted}
    ELSE {comment \in comments : comment.postId = response.postId /\ ~comment.deleted}

\* C11: whatever first the comments query, Post.comments or Comment.replies is
\* given, the page has at most 50 edges, and a first page says hasNextPage only
\* when the feed has a row that the page does not return.
C11_CommentPageSizeClamped ==
    \A response \in {query.prev, query.last} :
        (/\ response.feed \in {"comments", "Post.comments", "Comment.replies"}
         /\ response.kind = "ok")
        => /\ Len(response.edges) <= 50
           /\ (response.hasNextPage /\ response.after = NoCursor)
              => Cardinality(CommentFeedRows(response)) > Len(response.edges)

-----------------------------------------------------------------------------
(* Properties of typing presence *)

\* C12: getTypingUsers of a post returns the users whose last startTyping on
\* the post, not followed by a stopTyping, is at most 5 seconds before the
\* query: none that is older, swept or not, and every one that is not.
C12_TypingUsersAreTheRecentOnes ==
    activeUsers.postId # 0
    => activeUsers.users =
          {u \in Users : /\ hist.asked[activeUsers.postId][u] # NotTyping
                         /\ activeUsers.at - hist.asked[activeUsers.postId][u] <= 5000}

\* a response with a user in it and without another, whose entry is in the map
\* and too old
C12_Witness ==
    /\ activeUsers.postId # 0
    /\ activeUsers.users # {}
    /\ \E entry \in typingUsers : /\ entry.postId = activeUsers.postId
                                  /\ entry.userId \notin activeUsers.users
                                  /\ activeUsers.at - entry.lastTyping > 5000

-----------------------------------------------------------------------------
(* Properties of the event bus and its two transports *)

\* the post an event belongs to: the post commented on, updated, voted on or
\* typed on, and the post of the comment voted on; 0 for a notification
EventPost(payload) ==
    CASE payload.triggerName \in {"COMMENT_ADDED", "COMMENT_DELETED", "USER_TYPING"} ->
            payload.postId
      [] payload.triggerName = "POST_UPDATED" -> payload.id
      [] payload.triggerName = "VOTE_UPDATED" ->
            IF \E post \in posts : post.id = payload.targetId
            THEN payload.targetId
            ELSE (CHOOSE comment \in comments : comment.id = payload.targetId).postId
      [] OTHER -> 0

\* C13: when an event is published, an SSE connection writes a frame, and an
\* iterator subscribed with a postId delivers the event, only if the event
\* belongs to the post the listener is for.
C13_EventsStayWithTheirPost ==
    [][hist'.n # hist.n
       => /\ \A c \in ConnIds :
                connections'[c].frames # connections[c].frames
                => EventPost(hist'.event) = connections[c].postId
          /\ \A i \in IterIds :
                (iterators'[i].delivered # iterators[i].delivered
                 /\ iterators[i].postId # 0)
                => EventPost(hist'.event) = iterators[i].postId]_vars

\* an event of one post was handed to a connection and to an iterator that
\* waits, both for the other post, and neither has passed it on
C13_Witness ==
    /\ hist.n = 1
    /\ EventPost(hist.event) = 1
    /\ \E c \in ConnIds :
          /\ [kind |-> "sse", owner |-> c] \in hist.heardBy
          /\ connections[c].postId = 2
          /\ ~connections[c].destroyed
          /\ connections[c].frames = <<ConnectedFrame(2)>>
    /\ \E i \in IterIds :
          /\ [kind |-> "iterator", owner |-> i] \in hist.heardBy
          /\ iterators[i].postId = 2
          /\ iterators[i].listeners = 1
          /\ iterators[i].delivered = <<>>

-----------------------------------------------------------------------------
(* Properties of the reputation *)

\* upvotes minus downvotes over every vote row on every post and comment of author
AuthorNet(author) ==
    VoteSum(votes, {post.id : post \in {p \in posts : p.authorId = author}}, "post")
    + VoteSum(votes, {comment.id : comment \in {c \in comments : c.authorId = author}},
              "comment")

\* C14: the stored reputation of every user is the net total of the vote rows
\* on the user's posts and comments, and the recomputation for any vote row
\* leaves it as it is.
C14_ReputationIsNetOfAllVotes ==
    /\ \A u \in Users : users[u] = AuthorNet(u)
    /\ \A row \in VoteRows : votes[row] > 0 => update_user_reputation(votes, row) = users

-----------------------------------------------------------------------------
(* Properties of soft deletion *)

\* C16: a call of updatePost, deletePost or bookmarkPost by a caller on a post
\* that is soft-deleted ends at once with NotFound, and changes no row and
\* publishes no event.
C16_DeletedPostIsAbsent ==
    [][\A r \in Reqs :
        (/\ Idle(r)
         /\ call'[r].op \in {"updatePost", "deletePost", "bookmarkPost"}
         /\ call'[r].user # NoUser
         /\ \E post \in posts : post.id = call'[r].targetId /\ post.deleted)
        => /\ call'[r].pc = "done"
           /\ call'[r].result.kind = "NOT_FOUND"
           /\ call'[r].events = <<>>
           /\ posts' = posts /\ bookmarks' = bookmarks]_vars

\* C17: a connection that is closed, by the client's disconnect or by a
\* heartbeat whose write has failed, has its heartbeat timer cancelled and none
\* of its listeners registered on the bus.
C17_ClosedConnectionHoldsNothing ==
    \A c \in ConnIds :
        (\/ connections[c].state = "closed"
         \/ connections[c].state = "open" /\ ~connections[c].heartbeat)
        => /\ ~connections[c].heartbeat
           /\ ~\E sub \in subscriptions : sub.kind = "sse" /\ sub.owner = c

\* a connection that had its three listeners is closed, and the iterator's
\* listener is the one left on the bus
C17_Witness ==
    \E c \in ConnIds :
        /\ connections[c].state = "closed"
        /\ Cardinality(connections[c].subscriptionIds) = 3
        /\ Len(connections[c].frames) > 1
        /\ subscriptions # {}

\* C18: the listeners that the iterators have on the bus are those of the
\* subscriptions that are live: when return() or throw() has ended an iterator,
\* its listener is registered no more.
C18_BusListenersAreLiveSubscriptions ==
    \A i \in IterIds :
        (\E sub \in subscriptions : sub.kind = "iterator" /\ sub.owner = i)
        <=> iterators[i].state = "live"

\* C19: the first frame of every connection is the connected frame, with the
\* postId of the connection: no event frame and no heartbeat is written before
\* it, and it is written once.
C19_ConnectedFrameComesFirst ==
    \A c \in ConnIds :
        connections[c].state # "none"
        => LET frames == connections[c].frames
           IN  /\ Len(frames) >= 1
               /\ frames[1].type = "connected"
               /\ frames[1].postId = connections[c].postId
               /\ \A k \in 2..Len(frames) : frames[k].type # "connected"

\* a vote event came while the handler was still registering its listeners,
\* and its frame is the second of the connection
C19_Witness ==
    \E c \in ConnIds :
        /\ connections[c].state = "subscribing"
        /\ connections[c].postId = 2
        /\ Len(connections[c].frames) = 2
        /\ connections[c].frames[2].type = "voteUpdated"

\* the type of the frame of each kind of event of the subscription channel
FrameType(triggerName) ==
    CASE triggerName = "COMMENT_ADDED" -> "commentAdded"
      [] triggerName = "POST_UPDATED" -> "postUpdated"
      [] triggerName = "VOTE_UPDATED" -> "voteUpdated"
      [] triggerName = "USER_TYPING" -> "userTyping"
      [] triggerName = "NOTIFICATION_RECEIVED" -> "notificationReceived"

\* C20: when an event of a kind of the subscription channel (commentAdded,
\* postUpdated, voteUpdated, userTyping, notificationReceived) is published for
\* a post, every SSE connection that is open for the post writes a frame of
\* that kind.
C20_StreamEmitsTheKindsOfTheChannel ==
    [][(/\ hist'.n # hist.n
        /\ hist'.event.triggerName \in
              {"COMMENT_ADDED", "POST_UPDATED", "VOTE_UPDATED", "USER_TYPING",
               "NOTIFICATION_RECEIVED"})
       => \A c \in ConnIds :
             (/\ connections[c].state = "open"
              /\ ~connections[c].destroyed
              /\ connections[c].postId = EventPost(hist'.event))
             => /\ Len(connections'[c].frames) = Len(connections[c].frames) + 1
                /\ connections'[c].frames[Len(connections'[c].frames)].type =
                      FrameType(hist'.event.triggerName)]_vars

\* C21: when the event of a vote or removeVote on post P is published, the
\* voteUpdated iterator that is subscribed with postId = P and waits in next()
\* delivers it; and so does the one subscribed with commentId = C for the
\* event of a vote on comment C.
C21_VoteEventsReachTheirSubscribers ==
    [][(hist'.n # hist.n /\ hist'.event.triggerName = "VOTE_UPDATED")
       => \A i \in IterIds :
             (/\ iterators[i].state = "live"
              /\ iterators[i].field = "voteUpdated"
              /\ iterators[i].listeners > 0
              /\ \/ /\ iterators[i].postId # 0
                    /\ hist'.event.targetId = iterators[i].postId
                    /\ \E post \in posts : post.id = hist'.event.targetId
                 \/ /\ iterators[i].postId = 0
                    /\ iterators[i].commentId # 0
                    /\ hist'.event.targetId = iterators[i].commentId
                    /\ \E comment \in comments : comment.id = hist'.event.targetId)
             => iterators'[i].delivered = Append(iterators[i].delivered, hist'.event)]_vars

-----------------------------------------------------------------------------
(* Properties of the vote events of comments *)

\* C22: every event that vote or removeVote publishes for a comment carries the
\* id of the comment's post: the SSE listeners of a connection for that post
\* write a frame for it, and those of a connection for another post do not.
C22_CommentVoteEventsCarryThePost ==
    \A r \in Reqs :
        call[r].op \in {"vote", "removeVote"}
        => \A k \in 1..Len(call[r].events) :
              LET voteData == call[r].events[k].voteUpdated
              IN  voteData.targetType = "comment"
                  => \A comment \in comments :
                        comment.id = voteData.targetId
                        => /\ voteData.commentPostId = {comment.postId}
                           /\ \A postId \in PostIds :
                                 onMessage(postId, VoteUpdatedPayload(voteData)) # <<>>
                                 <=> postId = comment.postId

-----------------------------------------------------------------------------
(* Properties of delivery *)

\* C23: when a mutation (vote, removeVote, createComment, deleteComment)
\* publishes its event, a listener whose delivery fails (the write to its
\* connection throws, or the connection is dead) stops nobody else: every other
\* connection with a frame to write has it written, every waiting subscriber
\* the event passes to is handed it, the round of the emitter does not throw,
\* and the mutation is done with success and its write in the store.
C23_FailedDeliveryStopsNothing ==
    [][\A r \in Reqs :
          Len(call'[r].events) > Len(call[r].events)
          => LET payload == hist'.event
                 heard(kind, owner) ==
                     \E sub \in subscriptions : /\ sub.triggerName = payload.triggerName
                                                /\ sub.kind = kind
                                                /\ sub.owner = owner
             IN  /\ payload = PayloadOf(call'[r].events[Len(call'[r].events)])
                 /\ ~hist'.thrown
                 /\ call'[r].pc = "done" /\ call'[r].result.kind = "ok"
                 /\ call[r].op = "vote"
                    => \E row \in VoteRows :
                          /\ row.userId = call[r].user
                          /\ row.votableId = call[r].targetId
                          /\ row.voteType = call[r].voteType
                          /\ votes'[row] = 1
                 /\ call[r].op = "removeVote"
                    => \A row \in VoteRows :
                          /\ row.userId = call[r].user
                          /\ row.votableId = call[r].targetId
                          /\ row.votableType = ToLowerCase(call[r].targetType)
                          => votes'[row] = 0
                 /\ call[r].op = "createComment"
                    => \E comment \in comments' \ comments : comment.id = payload.id
                 /\ call[r].op = "deleteComment"
                    => \A comment \in comments' :
                          comment.id = call[r].targetId => comment.deleted
                 /\ \A c \in ConnIds :
                       /\ heard("sse", c)
                       /\ ~(connections[c].ended \/ connections[c].destroyed)
                       /\ c \notin hist'.failed
                       => connections'[c].frames =
                             connections[c].frames \o onMessage(connections[c].postId, payload)
                 /\ \A i \in IterIds :
                       /\ heard("iterator", i)
                       /\ iterators[i].listeners > 0
                       /\ Filter(iterators[i], payload)
                       => iterators'[i].delivered = Append(iterators[i].delivered, payload)
      ]_vars

\* a createComment is done with success after a round in which the write to a
\* connection that subscribed first threw and the subscriber of commentAdded,
\* which subscribed after it, was handed the comment
C23_Witness ==
    /\ call["R1"].op = "createComment" /\ call["R1"].pc = "done"
    /\ call["R1"].result.kind = "ok"
    /\ hist.failed # {}
    /\ \E i \in IterIds :
          /\ Len(iterators[i].delivered) > 0
          /\ iterators[i].delivered[Len(iterators[i].delivered)] = hist.event
          /\ \E s \in subscriptions, t \in subscriptions :
                /\ s.kind = "sse" /\ s.owner \in hist.failed
                /\ s.triggerName = "COMMENT_ADDED"
                /\ t.kind = "iterator" /\ t.owner = i
                /\ s.id < t.id

-----------------------------------------------------------------------------
(* Properties of topic subscriptions *)

\* C24: whenever no subscribeTopic and no unsubscribeTopic is in progress, the
\* subscriberCount of each topic is the number of rows of user_topics for it,
\* whatever calls came before, refused or not, one after the other or
\* overlapping.
C24_SubscriberCountIsTheRowCount ==
    (\A r \in Reqs : ~InFlight(r))
    => \A topicId \in TopicIds :
          topics[topicId] = Cardinality({row \in userTopics : row.topicId = topicId})

\* both users are subscribed to topic 1 and a call has just failed on the
\* primary key of user_topics: it had overlapped a subscribeTopic of the same
\* user
C24_Witness ==
    /\ \A r \in Reqs : ~InFlight(r)
    /\ Cardinality({row \in userTopics : row.topicId = 1}) = 2
    /\ \E r \in Reqs : call[r].op = "subscribeTopic" /\ call[r].result.kind = "P2002"

-----------------------------------------------------------------------------
(* Properties of pageInfo *)

\* C25: a page of a paginated query has hasPreviousPage true exactly when the
\* request came with a cursor, a non-empty string in after, whether or not a
\* row of the feed sorts before the page.
C25_HasPreviousPageIsCursorSupplied ==
    query.last.kind = "ok"
    => (query.last.hasPreviousPage <=> query.last.after.kind \in {"iso", "id", "text"})

\* a page of the posts feed, oldest first, asked for with a cursor: it says
\* hasPreviousPage although its first post is the oldest there is
C25_Witness ==
    /\ query.last.kind = "ok" /\ query.last.feed = "posts"
    /\ query.last.orderBy = "OLDEST"
    /\ query.last.after.kind = "iso"
    /\ query.last.hasPreviousPage
    /\ query.last.edges # <<>>
    /\ \A first \in posts, post \in posts :
          first.id = query.last.edges[1] /\ ~post.deleted
          => ~PostPrecedes("OLDEST", post, first)

-----------------------------------------------------------------------------
(* Properties of the loaders *)

\* C26: in a request, no loader fetches from the store a key it has fetched
\* before in that request and that was not cleared since, whether the key is
\* a string (post, comment) or an object (vote, bookmark).
C26_NoKeyIsFetchedTwice ==
    \A k \in 1..Len(hist.loads) : hist.loads[k].fetched => ~hist.loads[k].known

\* C27: a load of a key after the request's own mutation of its row, or in a
\* request that began after the mutation, gives the row as the store has it.
C27_LoadsAfterAMutationAreFresh ==
    \A k \in 1..Len(hist.loads) :
        ~hist.loads[k].foreign => hist.loads[k].value = hist.loads[k].fresh

\* C28: a load is answered with the row as the store has it, or from a memo
\* table with an entry that a load of the same request has memoized, whatever
\* other requests have memoized meanwhile.
C28_MemoizedValuesStayInTheirRequest ==
    \A k \in 1..Len(hist.loads) :
        IF hist.loads[k].fetched
        THEN hist.loads[k].value = hist.loads[k].fresh
        ELSE hist.loads[k].own

\* request R2 is answered from its memo table while R1 has the same key
\* memoized with another value
C28_Witness ==
    /\ Resolving("R1") /\ Resolving("R2")
    /\ \E k \in 1..Len(hist.loads) :
          LET load == hist.loads[k]
          IN  /\ load.req = "R2" /\ ~load.fetched /\ load.loader = "postLoader"
              /\ \E entry \in dataLoaders["R1"].postLoader :
                    Named(entry.key) = load.key /\ entry.value # load.value

-----------------------------------------------------------------------------
(* Properties of the order of a feed *)

\* C29: the rows of a page are in the order of their sort key and, where the
\* keys are equal, of their ids: newest by time descending then id descending,
\* oldest by time ascending then id ascending, top by score (the views of a
\* post) descending then id descending.
C29_EqualKeysAreOrderedById ==
    LET response == query.last
        rows == IF response.feed = "posts" THEN posts ELSE comments
        row(id) == CHOOSE x \in rows : x.id = id
        InOrder(a, b) ==
            CASE response.orderBy = "OLDEST" ->
                    \/ a.createdAt < b.createdAt
                    \/ a.createdAt = b.createdAt /\ a.id < b.id
              [] response.orderBy = "TOP" /\ response.feed = "posts" ->
                    \/ a.views > b.views
                    \/ a.views = b.views /\ a.id > b.id
              [] response.orderBy = "NEWEST" ->
                    \/ a.createdAt > b.createdAt
                    \/ a.createdAt = b.createdAt /\ a.id > b.id
              [] OTHER -> TRUE
    IN  response.kind = "ok" /\ response.feed \in {"posts", "comments"}
        => \A i, j \in 1..Len(response.edges) :
              i < j => InOrder(row(response.edges[i]), row(response.edges[j]))

\* C30: on a posts feed whose timestamps are pairwise distinct, in whichever
\* order (NEWEST, OLDEST, TOP, TRENDING), the first page and the page asked for
\* with its endCursor have no post in common, no post of the second sorts
\* before a post of the first, and when the second says there is no next page
\* the two hold every post that is not deleted.
C30_PagesFollowTheOrderOfTheFeed ==
    LET page1 == query.prev
        page2 == query.last
        post(id) == CHOOSE x \in posts : x.id = id
    IN  (/\ page1.feed = "posts" /\ page2.feed = "posts"
         /\ page1.kind = "ok" /\ page2.kind = "ok"
         /\ page1.orderBy = page2.orderBy
         /\ page1.after = NoCursor
         /\ page1.hasNextPage /\ page2.after = page1.endCursor
         /\ \A x, y \in posts : x.createdAt = y.createdAt => x = y)
        => /\ \A i \in DOMAIN page1.edges, j \in DOMAIN page2.edges :
                 /\ page1.edges[i] # page2.edges[j]
                 /\ ~PostPrecedes(page1.orderBy, post(page2.edges[j]), post(page1.edges[i]))
           /\ ~page2.hasNextPage
              => \A x \in posts :
                    ~x.deleted => \/ \E i \in DOMAIN page1.edges : page1.edges[i] = x.id
                                  \/ \E j \in DOMAIN page2.edges : page2.edges[j] = x.id

-----------------------------------------------------------------------------
(* Properties of a page *)

\* the rows of the feed a response is a page of, whichever listing it is
PageRows(response) ==
    IF response.feed = "posts" THEN FeedRows(response) ELSE CommentFeedRows(response)

\* a sorts strictly before b in the order of the response's feed
PagePrecedes(response, a, b) ==
    IF response.feed = "posts" THEN PostPrecedes(response.orderBy, a, b)
    ELSE CommentPrecedes(response.orderBy, a, b)

\* the rows a page ends at: its last edge, or the row of its cursor when it
\* has no edge
Anchors(response) ==
    LET edges == response.edges
        after == response.after
    IN  IF edges # <<>>
        THEN {row \in PageRows(response) : row.id = edges[Len(edges)]}
        ELSE IF response.feed = "posts"
        THEN {post \in posts : after.kind = "iso" /\ post.createdAt = after.value}
        ELSE {comment \in comments : after.kind = "id" /\ comment.id = after.value}

\* the rows of the feed that the page does not return and that sort after
\* where the page ends, strictly or not (rows whose sort keys are equal come
\* in the store's order); no row lies after a cursor that names none
Remaining(response, strictly) ==
    {row \in PageRows(response) :
        /\ \A i \in DOMAIN response.edges : response.edges[i] # row.id
        /\ Truthy(response.after) => Anchors(response) # {}
        /\ \A anchor \in Anchors(response) :
              IF strictly THEN PagePrecedes(response, anchor, row)
              ELSE ~PagePrecedes(response, row, anchor)}

\* the cursor of the edge with the given id in a response's feed
CursorOf(response, id) ==
    IF response.feed = "posts"
    THEN toISOString((CHOOSE post \in posts : post.id = id).createdAt)
    ELSE IdCursor(id)

\* C31: every page of the four listings says hasNextPage exactly when its feed
\* holds a row after the returned ones, returns at most as many edges as it
\* fetched rows less the peeked one, and has the cursors of its first and last
\* edge as startCursor and endCursor, null when it has no edge.
C31_HasNextPageIsOneMoreRow ==
    \A response \in {query.prev, query.last} :
        response.kind = "ok"
        => /\ response.hasNextPage => Remaining(response, FALSE) # {}
           /\ ~response.hasNextPage => Remaining(response, TRUE) = {}
           /\ response.hasNextPage => Len(response.edges) < response.fetched
           /\ \A i \in DOMAIN response.edges, j \in DOMAIN response.edges :
                 i # j => response.edges[i] # response.edges[j]
           /\ response.startCursor =
                 IF response.edges = <<>> THEN NoCursor
                 ELSE CursorOf(response, response.edges[1])
           /\ response.endCursor =
                 IF response.edges = <<>> THEN NoCursor
                 ELSE CursorOf(response, response.edges[Len(response.edges)])

-----------------------------------------------------------------------------
(* Properties of the order of the comment listings *)

\* the stored comment with the given id
CommentOf(id) == CHOOSE comment \in comments : comment.id = id

\* C32: a page of Query.comments, Post.comments or Comment.replies holds live
\* comments of its post (of its parent) only, a first page that says there is
\* no next page holds all of them, and its edges are in order: for TOP by
\* depth ascending and, at equal depth, by creation time descending; for
\* OLDEST, and for replies, by creation time ascending.
C32_CommentListingsAreLiveAndOrdered ==
    \A response \in {query.prev, query.last} :
        (/\ response.feed \in {"comments", "Post.comments", "Comment.replies"}
         /\ response.kind = "ok")
        => LET edges == response.edges
           IN  /\ \A i \in DOMAIN edges :
                     /\ ~CommentOf(edges[i]).deleted
                     /\ IF response.feed = "Comment.replies"
                        THEN CommentOf(edges[i]).parentId = response.postId
                        ELSE CommentOf(edges[i]).postId = response.postId
               /\ (response.after = NoCursor /\ ~response.hasNextPage)
                  => {edges[i] : i \in DOMAIN edges}
                        = {comment.id : comment \in CommentFeedRows(response)}
               /\ \A i \in DOMAIN edges, j \in DOMAIN edges :
                     i < j =>
                        LET a == CommentOf(edges[i])
                            b == CommentOf(edges[j])
                        IN  CASE response.orderBy = "TOP" ->
                                    \/ a.depth < b.depth
                                    \/ a.depth = b.depth /\ a.createdAt >= b.createdAt
                              [] response.orderBy = "OLDEST" ->
                                    a.createdAt <= b.createdAt
                              [] OTHER -> TRUE

\* the TOP listing of a post with a soft-deleted top-level comment and a
\* soft-deleted reply: the live top-level comment comes before the live reply,
\* which is the newer of the two
C32_Witness ==
    /\ query.last.feed = "comments" /\ query.last.kind = "ok"
    /\ query.last.orderBy = "TOP"
    /\ query.last.edges = <<1, 4>>
    /\ CommentOf(2).deleted /\ CommentOf(3).deleted
    /\ CommentOf(4).createdAt > CommentOf(1).createdAt

-----------------------------------------------------------------------------
(* Properties of deleteComment *)

\* C33: the step of deleteComment that soft-deletes comment c for its author
\* leaves every row of votes and every other comment as it is (its replies and
\* their replies among them) and changes of c the deletion mark only; and a
\* listing of the post returns every comment that is not soft-deleted, whether
\* a comment above it in its thread is or not.
C33_SoftDeleteChangesOneComment ==
    [][/\ \A r \in Reqs :
             (/\ call[r].op = "deleteComment" /\ call[r].pc = "softDelete"
              /\ call'[r].pc = "done"
              /\ \E c \in comments : c.id = call[r].targetId /\ c.authorId = call[r].user)
             => /\ call'[r].result.kind = "ok"
                /\ votes' = votes
                /\ posts' = posts
                /\ \A x \in comments :
                      IF x.id = call[r].targetId
                      THEN [x EXCEPT !.deleted = TRUE] \in comments'
                      ELSE x \in comments'
                /\ Cardinality(comments') = Cardinality(comments)
       /\ (query' # query /\ query'.last.kind = "ok")
          => \A x \in comments :
                (x.postId = query'.last.postId /\ ~x.deleted)
                => \E i \in DOMAIN query'.last.edges : query'.last.edges[i] = x.id]_vars

\* U2 has deleted comment 2, which U1 and U2 had voted on: the votes are there,
\* the comments below it are live and the listing of the post has returned
\* them, without comment 2
C33_Witness ==
    /\ \E c \in comments : c.id = 2 /\ c.deleted /\ c.authorId = "U2"
    /\ \A c \in comments : c.id # 2 => ~c.deleted
    /\ \A row \in VoteRows :
          (row.votableId = 2 /\ row.votableType = "comment" /\ row.voteType = "UPVOTE")
          => votes[row] = 1
    /\ query.last.kind = "ok"
    /\ query.last.edges = <<5, 4, 3, 1>>

-----------------------------------------------------------------------------
(* Properties of the sweep *)

\* the times at which a client of the sweep specification may start typing
StartTimes == {t \in {0, period \div 2, period} : t + timeout + period <= MaxSweepNow}

\* C34: with the sweep running again and again as time passes, every entry of
\* the typing map is deleted or replaced by a later startTyping in the end; no
\* post has a map without an entry; and a run of the sweep deletes no entry
\* whose lastTyping is at most 5000 ms old.
C34_SweepRemovesTheIdleEntries ==
    /\ [](\A postId \in typingPosts : \E entry \in typingUsers : entry.postId = postId)
    /\ [][typingUsers' # typingUsers /\ hist' # hist
          => \A entry \in typingUsers \ typingUsers' : now - entry.lastTyping > 5000]_vars
    /\ \A postId \in PostIds, user \in Users, t \in StartTimes :
          ([postId |-> postId, userId |-> user, lastTyping |-> t] \in typingUsers)
          ~> ([postId |-> postId, userId |-> user, lastTyping |-> t] \notin typingUsers)

\* a run of the sweep has deleted the one entry of a post, and the post's map
\* with it, and has left an entry of the other post that was exactly 5000 ms
\* old
C34_Witness ==
    /\ \E entry \in hist.removed : /\ entry.postId = 1
                                   /\ hist.at - entry.lastTyping > 5000
    /\ \E entry \in hist.kept : /\ entry.postId = 2
                                /\ hist.at - entry.lastTyping = 5000
    /\ typingUsers = hist.kept
    /\ typingPosts = {2}

-----------------------------------------------------------------------------
(* Properties of the paths of the comments *)

\* C35: every stored comment has a path: its own segment if it has no parent,
\* else the path of its parent followed by its own segment; so the path has
\* depth + 1 segments and the path of the parent is a proper prefix of it.
C35_PathIsParentPathAndOwnSegment ==
    \A comment \in comments :
        /\ ~path[comment.id].null
        /\ Len(path[comment.id].labels) = comment.depth + 1
        /\ IF comment.parentId = NoParent
           THEN path[comment.id].labels = <<comment.id>>
           ELSE /\ ~path[comment.parentId].null
                /\ path[comment.id].labels
                      = path[comment.parentId].labels \o <<comment.id>>

-----------------------------------------------------------------------------
(* Properties of overlapping votes of one user on one target *)

\* C36: however the vote and removeVote calls of the logged-in users on the
\* existing targets overlap, a call of vote ends with success and a call of
\* removeVote ends with true or with NotFound: no call ends with an error of
\* the storage layer (a second row for the key, no row for the key).
C36_OverlappingVotesEndAsDocumented ==
    \A r \in Reqs :
        LET c == call[r]
            target == IF c.targetType = "POST" THEN PostLoad(c.targetId)
                      ELSE CommentLoad(c.targetId)
        IN  (c.pc = "done" /\ c.user # NoUser /\ target # {}) =>
                /\ c.op = "vote" => c.result.kind = "ok"
                /\ c.op = "removeVote" => c.result.kind \in {"ok", "NOT_FOUND"}

-----------------------------------------------------------------------------
(* Properties of the order of the write and the event *)

\* C37: a call of vote, removeVote, createComment, deleteComment, createPost or
\* updatePost publishes an event only when the store has taken its write, and a
\* call that ends with a failure has published no event.
C37_PublishedOnlyAfterTheWrite ==
    [][\A r \in Reqs :
          /\ Len(call'[r].events) > Len(call[r].events) => r \in hist'.written
          /\ (call'[r].pc = "done" /\ call'[r].result.kind # "ok")
                => call'[r].events = <<>>]_vars

\* createPost has stored the second post and published its event, while the
\* other call's createPost was refused by the store
C37_Witness ==
    \E r \in Reqs, q \in Reqs :
        /\ call[r].op = "createPost" /\ call[r].pc = "done"
        /\ call[r].result.kind = "ok"
        /\ Len(call[r].events) = 1 /\ call[r].events[1].channel = "POST_CREATED"
        /\ r \in hist.written
        /\ Cardinality(posts) = 2
        /\ call[q].op = "createPost" /\ call[q].pc = "create"

-----------------------------------------------------------------------------
(* Properties of the iterator of a subscription operation *)

\* C38: every event published on the trigger of a live iterator is handed to
\* its consumer by a call of next(), also an event published while no call of
\* next() waits and the second of two events in a row: so when the consumer
\* waits in next(), it has been handed every event published since it subscribed.
C38_LiveIteratorHandsOverEveryEvent ==
    \A i \in IterIds :
        (iterators[i].state = "live" /\ iterators[i].listeners > 0)
            => iterators[i].delivered = hist.published

\* C39: when return() or throw() has been called on an iterator, every call of
\* next() that waited settles in the end, and a later call of next() answers
\* done = true.
C39_FinishedIteratorSettlesEveryNext ==
    /\ \A i \in IterIds : [](iterators[i].isComplete => <>(hist.pending = 0))
    /\ [](\A k \in DOMAIN hist.done : hist.done[k])

-----------------------------------------------------------------------------
(* Properties of a closed connection of the event stream *)

\* C40: when the handler of 'close' of a connection has run, nothing more is
\* written to its response, neither the frame of an event nor a heartbeat,
\* whatever is published afterwards.
C40_NoFrameAfterClose ==
    [][\A c \in ConnIds :
          connections[c].state = "closed"
              => /\ connections'[c].frames = connections[c].frames
                 /\ connections'[c].state = "closed"]_vars

\* an event of the connection's post was published after its 'close', and the
\* response holds what it held: the connected frame and one earlier event
C40_Witness ==
    /\ connections[1].state = "closed"
    /\ hist.closed = {1}
    /\ onMessage(connections[1].postId, hist.event) # <<>>
    /\ hist.n = 2
    /\ Len(connections[1].frames) = 2
    /\ connections[1].frames[2].type # "heartbeat"

=============================================================================
